---- MODULE Spec2Model ----
(***************************************************************************)
(* Drivers for six Waveshare e-paper panels (epd1in54c, epd2in7b,          *)
(* epd2in9bc, epd3in7, epd7in5, epd7in5_hd).                               *)
(*                                                                         *)
(* Every driver method is a straight-line program of calls into the        *)
(* DisplayInterface (reset, cmd, data, cmd_with_data, data_x_times,        *)
(* wait_until_idle).  A method is modelled as the sequence of those calls  *)
(* (a "script"), each call carrying whether its result is propagated with  *)
(* `?`; Exec runs a script against the bus, the pins and the panel and     *)
(* yields the emitted trace and the method's result.                       *)
(*                                                                         *)
(* Byte sequences (pixel buffers, payloads, the data part of a trace) are  *)
(* kept run-length encoded, as sequences of <<byte, count>>, so that the   *)
(* panels keep their real geometry.                                        *)
(***************************************************************************)
EXTENDS Integers, Sequences, FiniteSets, TLC

VARIABLES model, faults, drv, color, asleep, panelBusy, initTrace, lastOp, pending

vars == <<model, faults, drv, color, asleep, panelBusy, initTrace, lastOp, pending>>

(* ------------------------------ bounds -------------------------------- *)

\* Longest time, counted in polls of the busy line, a refresh keeps the panel busy.
MaxBusy == 2

\* Greatest difference between a supplied buffer's length and the expected one.
MaxLenDelta == 1

(* ------------------------------ models -------------------------------- *)

Models == {"epd1in54c", "epd2in7b", "epd2in9bc", "epd3in7", "epd7in5", "epd7in5_hd"}

Colors == {"White", "Black"}

\* color::TriColor
TriColors == {"Black", "White", "Chromatic"}

RefreshLuts == {"Full", "Quick", "None"}

WIDTH_epd1in54c == 152
HEIGHT_epd1in54c == 152
WIDTH_epd2in7b == 176
HEIGHT_epd2in7b == 264
WIDTH_epd2in9bc == 128
HEIGHT_epd2in9bc == 296
WIDTH_epd3in7 == 280
HEIGHT_epd3in7 == 480
WIDTH_epd7in5 == 640
HEIGHT_epd7in5 == 384
WIDTH_epd7in5_hd == 880
HEIGHT_epd7in5_hd == 528

WIDTH(m) ==
    CASE m = "epd1in54c" -> WIDTH_epd1in54c
      [] m = "epd2in7b" -> WIDTH_epd2in7b
      [] m = "epd2in9bc" -> WIDTH_epd2in9bc
      [] m = "epd3in7" -> WIDTH_epd3in7
      [] m = "epd7in5" -> WIDTH_epd7in5
      [] m = "epd7in5_hd" -> WIDTH_epd7in5_hd

HEIGHT_as_width(m) == WIDTH(m)

\* fn height
HEIGHT(m) ==
    CASE m = "epd1in54c" -> HEIGHT_epd1in54c
      [] m = "epd2in7b" -> HEIGHT_epd2in7b
      [] m = "epd2in9bc" -> HEIGHT_epd2in9bc
      [] m = "epd3in7" -> HEIGHT_epd3in7
      [] m = "epd7in5" -> HEIGHT_epd7in5
      [] m = "epd7in5_hd" -> HEIGHT_epd7in5_hd

DEFAULT_BACKGROUND_COLOR == "White"

\* const NUM_DISPLAY_BITS: u32 = WIDTH * HEIGHT / 8 (epd1in54c, epd2in9bc)
NUM_DISPLAY_BITS(m) == (WIDTH(m) * HEIGHT(m)) \div 8

IS_BUSY_LOW_flipped(m) == m \in {"epd3in7", "epd7in5_hd"}

\* const IS_BUSY_LOW of each driver: the level wait_until_idle takes for "busy".
IS_BUSY_LOW(m) == m \in {"epd1in54c", "epd2in7b", "epd2in9bc", "epd7in5"}

\* The level the controller itself drives on its busy line while it is working.
PanelBusyIsLow(m) == m \in {"epd1in54c", "epd2in7b", "epd2in9bc", "epd7in5"}

\* The command that starts a refresh of the panel.
RefreshCommand(m) ==
    CASE m \in {"epd1in54c", "epd2in7b", "epd2in9bc", "epd7in5"} -> "DisplayRefresh"
      [] m = "epd3in7" -> "DisplayUpdateSequence"
      [] m = "epd7in5_hd" -> "MasterActivation"

\* crate::buffer_len: the length of a 1-bit-plane buffer, ceil(width*height/8).
buffer_len(w, h) == (w * h + 7) \div 8

\* Color::get_byte_value
get_byte_value(c) == IF c = "White" THEN 255 ELSE 0

\* !b on a u8
Not8(b) == 255 - b

\* (v >> 8) as u8 on a u32
high_byte(v) == (v \div 256) % 256

\* (v & 0xff) as u8 on a u32
low_byte(v) == v % 256

low_byte_aligned_rounding_up(v) == (((v + 7) \div 8) % 32) * 8

\* (v & 0xf8) as u8 on a u32: bits 3..7 of v are kept, all others dropped.
low_byte_aligned(v) == ((v \div 8) % 32) * 8

(* ------------------- run-length encoded byte sequences ---------------- *)

RunsLen(runs) ==
    LET RECURSIVE Sum(_)
        Sum(i) == IF i = 0 THEN 0 ELSE runs[i][2] + Sum(i - 1)
    IN Sum(Len(runs))

\* Append one run, keeping the encoding canonical (no empty run, no two
\* neighbouring runs of the same byte).
AddRun(runs, b, n) ==
    IF n = 0 THEN runs
    ELSE IF runs # <<>> /\ runs[Len(runs)][1] = b
         THEN [runs EXCEPT ![Len(runs)] = <<b, runs[Len(runs)][2] + n>>]
         ELSE Append(runs, <<b, n>>)

RECURSIVE CatRuns(_, _)
CatRuns(a, b) == IF b = <<>> THEN a ELSE CatRuns(AddRun(a, b[1][1], b[1][2]), Tail(b))

\* The first n bytes.
RECURSIVE TakeBytes(_, _)
TakeBytes(runs, n) ==
    IF n = 0 \/ runs = <<>> THEN <<>>
    ELSE IF runs[1][2] >= n THEN << <<runs[1][1], n>> >>
    ELSE <<runs[1]>> \o TakeBytes(Tail(runs), n - runs[1][2])

\* Every byte flipped (!b).
NotRuns(runs) == [i \in 1..Len(runs) |-> <<255 - runs[i][1], runs[i][2]>>]

(* -------------------------- scripts and traces ------------------------ *)

\* One call of a script.  k: the call; c: command or table name; d: payload;
\* t: timings; q: the call's result is propagated with `?` (or returned);
\* body: the calls a method call makes.
Step(k, c, d, t) == <<[k |-> k, c |-> c, d |-> d, t |-> t, q |-> FALSE, body |-> <<>>]>>

\* A trace event.
Event(k, c, d, t) == [k |-> k, c |-> c, d |-> d, t |-> t]

\* `call(...).await?`
Try(script) == [i \in 1..Len(script) |-> [script[i] EXCEPT !.q = TRUE]]

\* A call of a method of the driver or of the interface.
Call(body) == <<[k |-> "call", c |-> "", d |-> <<>>, t |-> <<>>, q |-> FALSE, body |-> body]>>

\* DisplayInterface::reset(delay, initial_delay, duration)
reset(a, s) == Step("rst", "", <<>>, <<a, s>>)

\* DisplayInterface::cmd(spi, command)
cmd(c) == Step("cmd", c, <<>>, <<>>)

\* DisplayInterface::data(spi, data)
data(runs) == Step("data", "", runs, <<>>)

\* DisplayInterface::data(spi, &TABLE) for a constant table of the driver
table(name) == Step("table", name, <<>>, <<>>)

\* DisplayInterface::cmd_with_data(spi, command, data)
cmd_with_data(c, runs) == Call(Try(cmd(c)) \o Try(data(runs)))

cmd_with_table(c, name) == Call(Try(cmd(c)) \o Try(table(name)))

\* DisplayInterface::data_x_times(spi, val, repetitions)
data_x_times(val, n) == Step("data", "", AddRun(<<>>, val, n), <<>>)

\* DisplayInterface::wait_until_idle(delay, is_busy_low)
interface_wait_until_idle == Step("wait", "", <<>>, <<>>)

\* DelayUs::delay_us
delay_us(n) == Step("delay", "", <<>>, <<n>>)

\* assert!, unimplemented!, todo!
panic == Step("panic", "", <<>>, <<>>)

\* The bytes of a literal payload.
RECURSIVE Bytes(_)
Bytes(bs) == IF bs = <<>> THEN <<>> ELSE CatRuns(<< <<bs[1], 1>> >>, Bytes(Tail(bs)))

(* ------------------------------ execution ----------------------------- *)

\* The environment of one method call: bn, the bn-th bus transfer of the call
\* fails (0: none fails), on its first byte or, with `last`, on its last one;
\* pn, the pn-th pin operation (reset pulse, busy wait) of the call fails
\* (0: none); dur, how long a refresh started by the call keeps the panel busy.
Env(bn, last, pn, dur) == [bn |-> bn, last |-> last, pn |-> pn, dur |-> dur]

\* The state of a call under execution: the trace emitted so far, the result,
\* the panel's remaining busy time, the bus transfers and pin operations made,
\* one record per completed wait, "fresh": the call has started a refresh
\* itself, "early": a byte was sent while the panel was still busy with the
\* refresh an earlier call started, "pinFault": a pin operation failed.
Start(busy) ==
    [trace |-> <<>>, res |-> "Ok", busy |-> busy, bus |-> 0, pin |-> 0,
     waits |-> <<>>, fresh |-> FALSE, early |-> FALSE, pinFault |-> FALSE]

\* Append payload bytes to the trace; neighbouring data transfers form one
\* byte stream.
EmitData(trace, runs) ==
    IF runs = <<>> THEN trace
    ELSE IF trace # <<>> /\ trace[Len(trace)].k = "data"
         THEN [trace EXCEPT ![Len(trace)].d = CatRuns(trace[Len(trace)].d, runs)]
         ELSE Append(trace, Event("data", "", runs, <<>>))

\* The level ("low" / "high") the busy line shows while the panel has `left`
\* more polls of work to do.
BusyLine(m, left) ==
    IF (left > 0) = PanelBusyIsLow(m) THEN "low" ELSE "high"

\* DisplayInterface::is_busy
is_busy(level, is_busy_low) ==
    (is_busy_low /\ level = "low") \/ (~is_busy_low /\ level = "high")

\* The polling loop of DisplayInterface::wait_until_idle: read the line, leave
\* when it is not busy, otherwise let time pass and read again.  The loop is
\* cut off (hang) once the line has been read MaxBusy + 2 times.
RECURSIVE Poll(_, _, _)
Poll(m, left, reads) ==
    IF reads > MaxBusy + 1 THEN [hang |-> TRUE, reads |-> reads, left |-> left]
    ELSE IF is_busy(BusyLine(m, left), IS_BUSY_LOW(m))
         THEN Poll(m, IF left > 0 THEN left - 1 ELSE 0, reads + 1)
         ELSE [hang |-> FALSE, reads |-> reads + 1, left |-> left]

\* One call into the interface.
Prim(m, s, env, st) ==
    CASE s.k = "rst" ->
           IF env.pn = st.pin + 1
           THEN [st EXCEPT !.pin = @ + 1, !.res = "Err", !.pinFault = TRUE,
                           !.trace = Append(@, Event("pinfail", "", <<>>, <<>>))]
           ELSE [st EXCEPT !.pin = @ + 1,
                           !.trace = Append(@, Event("rst", "", <<>>, s.t))]
      [] s.k = "delay" ->
           [st EXCEPT !.trace = Append(@, Event("delay", "", <<>>, s.t))]
      [] s.k = "cmd" ->
           IF env.bn = st.bus + 1
           THEN [st EXCEPT !.bus = @ + 1, !.res = "Err",
                           !.trace = Append(@, Event("fail", s.c, <<>>, <<>>))]
           ELSE [st EXCEPT !.bus = @ + 1,
                           !.trace = Append(@, Event("cmd", s.c, <<>>, <<>>)),
                           !.early = @ \/ (st.busy > 0 /\ ~st.fresh),
                           !.fresh = @ \/ s.c = RefreshCommand(m),
                           !.busy = IF s.c = RefreshCommand(m) THEN env.dur ELSE @]
      [] s.k = "data" ->
           IF s.d = <<>> THEN st
           ELSE IF env.bn = st.bus + 1
           THEN LET j == IF env.last THEN RunsLen(s.d) - 1 ELSE 0
                IN [st EXCEPT !.bus = @ + 1, !.res = "Err",
                              !.trace = Append(EmitData(@, TakeBytes(s.d, j)),
                                               Event("fail", "", <<>>, <<>>)),
                              !.early = @ \/ (j > 0 /\ st.busy > 0 /\ ~st.fresh)]
           ELSE [st EXCEPT !.bus = @ + 1, !.trace = EmitData(@, s.d),
                           !.early = @ \/ (st.busy > 0 /\ ~st.fresh)]
      [] s.k = "table" ->
           IF env.bn = st.bus + 1
           THEN [st EXCEPT !.bus = @ + 1, !.res = "Err",
                           !.trace = Append(@, Event("fail", "", <<>>, <<>>))]
           ELSE [st EXCEPT !.bus = @ + 1,
                           !.trace = Append(@, Event("table", s.c, <<>>, <<>>)),
                           !.early = @ \/ (st.busy > 0 /\ ~st.fresh)]
      [] s.k = "wait" ->
           IF env.pn = st.pin + 1
           THEN [st EXCEPT !.pin = @ + 1, !.res = "Err", !.pinFault = TRUE,
                           !.trace = Append(@, Event("pinfail", "", <<>>, <<>>))]
           ELSE LET p == Poll(m, st.busy, 0)
                IN IF p.hang
                   THEN [st EXCEPT !.pin = @ + 1, !.res = "Hang", !.busy = p.left]
                   ELSE [st EXCEPT !.pin = @ + 1, !.busy = p.left,
                                   !.trace = Append(@, Event("wait", "", <<>>, <<>>)),
                                   !.waits = Append(@, [n |-> st.busy, reads |-> p.reads,
                                                        left |-> p.left])]
      [] s.k = "panic" -> [st EXCEPT !.res = "Panic"]

\* Run a script: the calls in order; a failed call whose result is propagated
\* ends the method with that error, a failed call whose result is dropped
\* does not; a panic or a wait that never ends ends everything.
RECURSIVE Exec(_, _, _, _)
Exec(m, script, env, st) ==
    IF script = <<>> THEN st
    ELSE LET s == Head(script)
             r == IF s.k = "call" THEN Exec(m, s.body, env, st) ELSE Prim(m, s, env, st)
         IN IF r.res = "Ok" THEN Exec(m, Tail(script), env, r)
            ELSE IF r.res = "Err" /\ ~s.q
                 THEN Exec(m, Tail(script), env, [r EXCEPT !.res = "Ok"])
                 ELSE r

\* The calls into the interface a script makes, in order, when nothing fails.
RECURSIVE Flatten(_)
Flatten(script) ==
    IF script = <<>> THEN <<>>
    ELSE (IF Head(script).k = "call" THEN Flatten(Head(script).body) ELSE <<Head(script)>>)
         \o Flatten(Tail(script))

\* The bus transfers and the pin operations a script makes when nothing fails.
RECURSIVE CountBus(_)
CountBus(script) ==
    IF script = <<>> THEN 0
    ELSE LET s == Head(script)
         IN (CASE s.k = "call" -> CountBus(s.body)
               [] s.k \in {"cmd", "table"} -> 1
               [] s.k = "data" -> IF s.d = <<>> THEN 0 ELSE 1
               [] OTHER -> 0) + CountBus(Tail(script))

RECURSIVE CountPin(_)
CountPin(script) ==
    IF script = <<>> THEN 0
    ELSE LET s == Head(script)
         IN (CASE s.k = "call" -> CountPin(s.body)
               [] s.k \in {"rst", "wait"} -> 1
               [] OTHER -> 0) + CountPin(Tail(script))

(* ------------------------- methods shared in shape -------------------- *)

command_retrying(c) == Call(cmd(c) \o Try(cmd(c)))

\* fn command: self.interface.cmd(spi, command).await
command(c) == Call(Try(cmd(c)))

\* fn send_data: self.interface.data(spi, data).await
send_data(runs) == Call(Try(data(runs)))

\* fn wait_until_idle of every driver: the interface's wait, its outcome
\* dropped, then Ok(()).
wait_until_idle_returning_at_once(m) == <<>>

wait_until_idle(m) == Call(interface_wait_until_idle)

(* ------------------------------ epd1in54c ----------------------------- *)

send_resolution_epd1in54c_two_bytes ==
    Try(command("ResolutionSetting"))
    \o Try(send_data(Bytes(<<(WIDTH_epd1in54c % 256) - (WIDTH_epd1in54c % 8)>>)))
    \o Try(send_data(Bytes(<<HEIGHT_epd1in54c % 256>>)))

send_resolution_epd1in54c ==
    Try(command("ResolutionSetting"))
    \o Try(send_data(Bytes(<<(WIDTH_epd1in54c % 256) - (WIDTH_epd1in54c % 8)>>)))
    \o Try(send_data(Bytes(<<(WIDTH_epd1in54c \div 256) % 256>>)))
    \o Try(send_data(Bytes(<<HEIGHT_epd1in54c % 256>>)))

init_epd1in54c ==
    reset(10000, 2000)
    \o Try(cmd_with_data("BoosterSoftStart", Bytes(<<\H17, \H17, \H17>>)))
    \o Try(command("PowerOn"))
    \o delay_us(5000)
    \o Try(wait_until_idle("epd1in54c"))
    \o Try(cmd_with_data("PanelSetting", Bytes(<<\H0f, \H0d>>)))
    \o Try(Call(send_resolution_epd1in54c))
    \o Try(cmd_with_data("VcomAndDataIntervalSetting", Bytes(<<\H77>>)))

sleep_epd1in54c ==
    Try(wait_until_idle("epd1in54c"))
    \o Try(command("PowerOff"))
    \o Try(wait_until_idle("epd1in54c"))
    \o Try(cmd_with_data("DeepSleep", Bytes(<<\Ha5>>)))

update_achromatic_frame_epd1in54c(black) ==
    Try(wait_until_idle("epd1in54c"))
    \o Try(cmd_with_data("DataStartTransmission1", black))

update_chromatic_frame_epd1in54c(chromatic) ==
    Try(wait_until_idle("epd1in54c"))
    \o Try(cmd_with_data("DataStartTransmission2", chromatic))

update_color_frame_epd1in54c(black, chromatic) ==
    Try(Call(update_achromatic_frame_epd1in54c(black)))
    \o Try(Call(update_chromatic_frame_epd1in54c(chromatic)))

update_frame_epd1in54c_default_color(buffer, bg) ==
    Try(Call(update_achromatic_frame_epd1in54c(buffer)))
    \o Try(command("DataStartTransmission2"))
    \o Try(data_x_times(get_byte_value(DEFAULT_BACKGROUND_COLOR), NUM_DISPLAY_BITS("epd1in54c")))

update_frame_epd1in54c(buffer, bg) ==
    Try(Call(update_achromatic_frame_epd1in54c(buffer)))
    \o Try(command("DataStartTransmission2"))
    \o Try(data_x_times(get_byte_value(bg), NUM_DISPLAY_BITS("epd1in54c")))

\* unimplemented!()
update_partial_frame_epd1in54c(buffer, x, y, width, height) == panic

display_frame_epd1in54c ==
    Try(command("DisplayRefresh"))
    \o Try(wait_until_idle("epd1in54c"))

update_and_display_frame_epd1in54c(buffer, bg) ==
    Try(Call(update_frame_epd1in54c(buffer, bg)))
    \o Try(Call(display_frame_epd1in54c))

clear_frame_epd1in54c(bg) ==
    Try(wait_until_idle("epd1in54c"))
    \o Try(command("DataStartTransmission1"))
    \o Try(data_x_times(get_byte_value(DEFAULT_BACKGROUND_COLOR), NUM_DISPLAY_BITS("epd1in54c")))
    \o Try(command("DataStartTransmission2"))
    \o Try(data_x_times(get_byte_value(DEFAULT_BACKGROUND_COLOR), NUM_DISPLAY_BITS("epd1in54c")))

set_lut_epd1in54c(refresh_rate) == <<>>

(* ------------------------------ epd2in7b ------------------------------ *)

\* fn send_buffer_helper: every byte of the buffer is sent flipped.
send_buffer_helper(buffer) == Try(send_data(NotRuns(buffer)))

set_lut_epd2in7b(refresh_rate) ==
    Try(wait_until_idle("epd2in7b"))
    \o Try(cmd_with_table("LutForVcom", "LUT_VCOM_DC"))
    \o Try(cmd_with_table("LutWhiteToWhite", "LUT_WW"))
    \o Try(cmd_with_table("LutBlackToWhite", "LUT_BW"))
    \o Try(cmd_with_table("LutWhiteToBlack", "LUT_WB"))
    \o Try(cmd_with_table("LutBlackToBlack", "LUT_BB"))

init_epd2in7b ==
    reset(10000, 2000)
    \o Try(command("PowerOn"))
    \o delay_us(5000)
    \o Try(wait_until_idle("epd2in7b"))
    \o Try(cmd_with_data("PanelSetting", Bytes(<<\Haf>>)))
    \o Try(cmd_with_data("PllControl", Bytes(<<\H3a>>)))
    \o Try(cmd_with_data("PowerSetting", Bytes(<<\H03, \H00, \H2b, \H2b, \H09>>)))
    \o Try(cmd_with_data("BoosterSoftStart", Bytes(<<\H07, \H07, \H17>>)))
    \o Try(cmd_with_data("PowerOptimization", Bytes(<<\H60, \Ha5>>)))
    \o Try(cmd_with_data("PowerOptimization", Bytes(<<\H89, \Ha5>>)))
    \o Try(cmd_with_data("PowerOptimization", Bytes(<<\H90, \H00>>)))
    \o Try(cmd_with_data("PowerOptimization", Bytes(<<\H93, \H2a>>)))
    \o Try(cmd_with_data("PowerOptimization", Bytes(<<\H73, \H41>>)))
    \o Try(cmd_with_data("VcmDcSetting", Bytes(<<\H12>>)))
    \o Try(cmd_with_data("VcomAndDataIntervalSetting", Bytes(<<\H87>>)))
    \o Try(Call(set_lut_epd2in7b("None")))
    \o Try(cmd_with_data("PartialDisplayRefresh", Bytes(<<\H00>>)))
    \o Try(wait_until_idle("epd2in7b"))

sleep_epd2in7b ==
    Try(wait_until_idle("epd2in7b"))
    \o Try(cmd_with_data("VcomAndDataIntervalSetting", Bytes(<<\Hf7>>)))
    \o Try(command("PowerOff"))
    \o Try(wait_until_idle("epd2in7b"))
    \o Try(cmd_with_data("DeepSleep", Bytes(<<\HA5>>)))

update_frame_epd2in7b(buffer, bg) ==
    Try(cmd("DataStartTransmission1"))
    \o Try(Call(send_buffer_helper(buffer)))
    \o Try(cmd("DataStartTransmission2"))
    \o Try(data_x_times(Not8(get_byte_value(bg)),
                        (WIDTH_epd2in7b * HEIGHT_epd2in7b) \div 8))
    \o Try(cmd("DataStop"))

\* The eight bytes that carry x, y, width and height in the partial methods.
send_window_epd2in7b(x, y, width, height) ==
    Try(send_data(Bytes(<<high_byte(x)>>)))
    \o Try(send_data(Bytes(<<low_byte_aligned(x)>>)))
    \o Try(send_data(Bytes(<<high_byte(y)>>)))
    \o Try(send_data(Bytes(<<low_byte(y)>>)))
    \o Try(send_data(Bytes(<<high_byte(width)>>)))
    \o Try(send_data(Bytes(<<low_byte_aligned(width)>>)))
    \o Try(send_data(Bytes(<<high_byte(height)>>)))
    \o Try(send_data(Bytes(<<low_byte(height)>>)))

update_partial_frame_epd2in7b(buffer, x, y, width, height) ==
    Try(cmd("PartialDataStartTransmission1"))
    \o send_window_epd2in7b(x, y, width, height)
    \o Try(wait_until_idle("epd2in7b"))
    \o Try(Call(send_buffer_helper(buffer)))
    \o Try(cmd("DataStop"))

display_frame_epd2in7b ==
    Try(command("DisplayRefresh"))
    \o Try(wait_until_idle("epd2in7b"))

update_and_display_frame_epd2in7b(buffer, bg) ==
    Try(Call(update_frame_epd2in7b(buffer, bg)))
    \o Try(command("DisplayRefresh"))

clear_frame_epd2in7b(bg) ==
    Try(wait_until_idle("epd2in7b"))
    \o Try(cmd("DataStartTransmission1"))
    \o Try(data_x_times(get_byte_value(bg), (WIDTH_epd2in7b * HEIGHT_epd2in7b) \div 8))
    \o Try(cmd("DataStop"))
    \o Try(cmd("DataStartTransmission2"))
    \o Try(data_x_times(get_byte_value(bg), (WIDTH_epd2in7b * HEIGHT_epd2in7b) \div 8))
    \o Try(cmd("DataStop"))

update_achromatic_frame_epd2in7b(achromatic) ==
    Try(cmd("DataStartTransmission1"))
    \o Try(Call(send_buffer_helper(achromatic)))
    \o Try(cmd("DataStop"))

update_chromatic_frame_epd2in7b(chromatic) ==
    Try(cmd("DataStartTransmission2"))
    \o Try(Call(send_buffer_helper(chromatic)))
    \o Try(cmd("DataStop"))
    \o Try(wait_until_idle("epd2in7b"))

update_color_frame_epd2in7b_chromatic_first(black, chromatic) ==
    Try(Call(update_chromatic_frame_epd2in7b(chromatic)))
    \o Try(Call(update_achromatic_frame_epd2in7b(black)))

update_color_frame_epd2in7b(black, chromatic) ==
    Try(Call(update_achromatic_frame_epd2in7b(black)))
    \o Try(Call(update_chromatic_frame_epd2in7b(chromatic)))

display_partial_frame(x, y, width, height) ==
    Try(command("PartialDisplayRefresh"))
    \o send_window_epd2in7b(x, y, width, height)
    \o Try(wait_until_idle("epd2in7b"))

update_partial_achromatic_frame(achromatic, x, y, width, height) ==
    Try(cmd("PartialDataStartTransmission1"))
    \o send_window_epd2in7b(x, y, width, height)
    \o Try(wait_until_idle("epd2in7b"))
    \o Try(send_data(NotRuns(achromatic)))

update_partial_chromatic_frame(chromatic, x, y, width, height) ==
    Try(cmd("PartialDataStartTransmission2"))
    \o send_window_epd2in7b(x, y, width, height)
    \o Try(wait_until_idle("epd2in7b"))
    \o Try(send_data(NotRuns(chromatic)))

(* ------------------------------ epd2in9bc ----------------------------- *)

VCOM_DATA_INTERVAL == \H07
WHITE_BORDER == \H70
BLACK_BORDER == \H30
CHROMATIC_BORDER == \Hb0
FLOATING_BORDER == \HF0

border_of(tricolor) ==
    CASE tricolor = "Black" -> BLACK_BORDER
      [] tricolor = "White" -> WHITE_BORDER
      [] tricolor = "Chromatic" -> CHROMATIC_BORDER

set_border_color_without_interval(tricolor) ==
    Try(cmd_with_data("VcomAndDataIntervalSetting", Bytes(<<border_of(tricolor)>>)))

set_border_color(tricolor) ==
    Try(cmd_with_data("VcomAndDataIntervalSetting",
                      Bytes(<<border_of(tricolor) + VCOM_DATA_INTERVAL>>)))

send_resolution_epd2in9bc ==
    Try(command("ResolutionSetting"))
    \o Try(send_data(Bytes(<<WIDTH_epd2in9bc % 256>>)))
    \o Try(send_data(Bytes(<<(HEIGHT_epd2in9bc \div 256) % 256>>)))
    \o Try(send_data(Bytes(<<HEIGHT_epd2in9bc % 256>>)))

init_epd2in9bc ==
    reset(10000, 10000)
    \o Try(cmd_with_data("BoosterSoftStart", Bytes(<<\H17, \H17, \H17>>)))
    \o Try(command("PowerOn"))
    \o delay_us(5000)
    \o Try(wait_until_idle("epd2in9bc"))
    \o Try(cmd_with_data("PanelSetting", Bytes(<<\H8F>>)))
    \o Try(cmd_with_data("VcomAndDataIntervalSetting",
                         Bytes(<<WHITE_BORDER + VCOM_DATA_INTERVAL>>)))
    \o Try(Call(send_resolution_epd2in9bc))
    \o Try(cmd_with_data("VcmDcSetting", Bytes(<<\H0A>>)))
    \o Try(wait_until_idle("epd2in9bc"))

sleep_epd2in9bc ==
    Try(cmd_with_data("VcomAndDataIntervalSetting",
                      Bytes(<<FLOATING_BORDER + VCOM_DATA_INTERVAL>>)))
    \o Try(command("PowerOff"))
    \o Try(wait_until_idle("epd2in9bc"))
    \o Try(cmd_with_data("DeepSleep", Bytes(<<\HA5>>)))

update_frame_epd2in9bc_default_color(buffer, bg) ==
    Try(cmd("DataStartTransmission1"))
    \o Try(data(buffer))
    \o Try(cmd("DataStartTransmission2"))
    \o Try(data_x_times(get_byte_value(DEFAULT_BACKGROUND_COLOR), NUM_DISPLAY_BITS("epd2in9bc")))
    \o Try(wait_until_idle("epd2in9bc"))

update_frame_epd2in9bc(buffer, bg) ==
    Try(cmd("DataStartTransmission1"))
    \o Try(data(buffer))
    \o Try(cmd("DataStartTransmission2"))
    \o Try(data_x_times(get_byte_value(bg), NUM_DISPLAY_BITS("epd2in9bc")))
    \o Try(wait_until_idle("epd2in9bc"))

update_achromatic_frame_epd2in9bc(black) ==
    Try(cmd("DataStartTransmission1"))
    \o Try(data(black))

update_chromatic_frame_epd2in9bc(chromatic) ==
    Try(cmd("DataStartTransmission2"))
    \o Try(data(chromatic))
    \o Try(wait_until_idle("epd2in9bc"))

update_color_frame_epd2in9bc(black, chromatic) ==
    Try(Call(update_achromatic_frame_epd2in9bc(black)))
    \o Try(Call(update_chromatic_frame_epd2in9bc(chromatic)))

\* Ok(())
update_partial_frame_epd2in9bc(buffer, x, y, width, height) == <<>>

display_frame_epd2in9bc ==
    Try(command("DisplayRefresh"))
    \o Try(wait_until_idle("epd2in9bc"))

update_and_display_frame_epd2in9bc(buffer, bg) ==
    Try(Call(update_frame_epd2in9bc(buffer, bg)))
    \o Try(Call(display_frame_epd2in9bc))

clear_frame_epd2in9bc(bg) ==
    Try(Call(send_resolution_epd2in9bc))
    \o Try(cmd("DataStartTransmission1"))
    \o Try(data_x_times(get_byte_value(DEFAULT_BACKGROUND_COLOR), NUM_DISPLAY_BITS("epd2in9bc")))
    \o Try(cmd("DataStartTransmission2"))
    \o Try(data_x_times(get_byte_value(DEFAULT_BACKGROUND_COLOR), NUM_DISPLAY_BITS("epd2in9bc")))
    \o Try(wait_until_idle("epd2in9bc"))

set_lut_epd2in9bc_sending_table(refresh_rate) ==
    Try(cmd_with_table("LutForVcom", "LUT_VCOM_DC"))

\* Ok(())
set_lut_epd2in9bc(refresh_rate) == <<>>

(* ------------------------------- epd3in7 ------------------------------ *)

set_lut_epd3in7_quick_only(refresh_rate) ==
    Try(cmd_with_table("WriteLutRegister", "LUT_1GRAY_DU"))

set_lut_epd3in7(refresh_rate) ==
    Try(cmd_with_table("WriteLutRegister",
                       IF refresh_rate \in {"Full", "None"} THEN "LUT_1GRAY_GC"
                                                            ELSE "LUT_1GRAY_DU"))

init_epd3in7 ==
    reset(30, 10)
    \o Try(cmd("SwReset"))
    \o delay_us(300000)
    \o Try(cmd_with_data("AutoWriteRedRamRegularPattern", Bytes(<<\HF7>>)))
    \o interface_wait_until_idle
    \o Try(cmd_with_data("AutoWriteBwRamRegularPattern", Bytes(<<\HF7>>)))
    \o interface_wait_until_idle
    \o Try(cmd_with_data("GateSetting", Bytes(<<\HDF, \H01, \H00>>)))
    \o Try(cmd_with_data("GateVoltage", Bytes(<<\H00>>)))
    \o Try(cmd_with_data("GateVoltageSource", Bytes(<<\H41, \HA8, \H32>>)))
    \o Try(cmd_with_data("DataEntrySequence", Bytes(<<\H03>>)))
    \o Try(cmd_with_data("BorderWaveformControl", Bytes(<<\H03>>)))
    \o Try(cmd_with_data("BoosterSoftStartControl", Bytes(<<\HAE, \HC7, \HC3, \HC0, \HC0>>)))
    \o Try(cmd_with_data("TemperatureSensorSelection", Bytes(<<\H80>>)))
    \o Try(cmd_with_data("WriteVcomRegister", Bytes(<<\H44>>)))
    \o Try(cmd_with_data("DisplayOption",
                         Bytes(<<\H00, \HFF, \HFF, \HFF, \HFF, \H4F, \HFF, \HFF, \HFF, \HFF>>)))
    \o Try(cmd_with_data("SetRamXAddressStartEndPosition", Bytes(<<\H00, \H00, \H17, \H01>>)))
    \o Try(cmd_with_data("SetRamYAddressStartEndPosition", Bytes(<<\H00, \H00, \HDF, \H01>>)))
    \o Try(cmd_with_data("DisplayUpdateSequenceSetting", Bytes(<<\HCF>>)))
    \o Try(Call(set_lut_epd3in7("Full")))

sleep_epd3in7 ==
    Try(cmd_with_data("Sleep", Bytes(<<\HF7>>)))
    \o Try(cmd("PowerOff"))
    \o Try(cmd_with_data("Sleep2", Bytes(<<\HA5>>)))

update_frame_epd3in7(buffer, bg) ==
    IF RunsLen(buffer) # buffer_len(WIDTH_epd3in7, HEIGHT_epd3in7) THEN panic
    ELSE Try(cmd_with_data("SetRamXAddressCounter", Bytes(<<\H00, \H00>>)))
         \o Try(cmd_with_data("SetRamYAddressCounter", Bytes(<<\H00, \H00>>)))
         \o Try(cmd_with_data("WriteRam", buffer))

\* todo!()
update_partial_frame_epd3in7(buffer, x, y, width, height) == panic

display_frame_epd3in7 ==
    Try(cmd("DisplayUpdateSequence"))
    \o interface_wait_until_idle

update_and_display_frame_epd3in7(buffer, bg) ==
    Try(Call(update_frame_epd3in7(buffer, bg)))
    \o Try(Call(display_frame_epd3in7))

clear_frame_epd3in7(bg) ==
    Try(cmd_with_data("SetRamXAddressCounter", Bytes(<<\H00, \H00>>)))
    \o Try(cmd_with_data("SetRamYAddressCounter", Bytes(<<\H00, \H00>>)))
    \o Try(cmd("WriteRam"))
    \o Try(data_x_times(get_byte_value(bg), WIDTH_epd3in7 * HEIGHT_epd3in7))

(* ------------------------------- epd7in5 ------------------------------ *)

send_resolution_epd7in5_low_byte_first ==
    Try(command("TconResolution"))
    \o Try(send_data(Bytes(<<WIDTH_epd7in5 % 256>>)))
    \o Try(send_data(Bytes(<<(WIDTH_epd7in5 \div 256) % 256>>)))
    \o Try(send_data(Bytes(<<HEIGHT_epd7in5 % 256>>)))
    \o Try(send_data(Bytes(<<(HEIGHT_epd7in5 \div 256) % 256>>)))

send_resolution_epd7in5 ==
    Try(command("TconResolution"))
    \o Try(send_data(Bytes(<<(WIDTH_epd7in5 \div 256) % 256>>)))
    \o Try(send_data(Bytes(<<WIDTH_epd7in5 % 256>>)))
    \o Try(send_data(Bytes(<<(HEIGHT_epd7in5 \div 256) % 256>>)))
    \o Try(send_data(Bytes(<<HEIGHT_epd7in5 % 256>>)))

init_epd7in5 ==
    reset(10000, 10000)
    \o Try(cmd_with_data("PowerSetting", Bytes(<<\H37, \H00>>)))
    \o Try(cmd_with_data("PanelSetting", Bytes(<<\HCF, \H08>>)))
    \o Try(cmd_with_data("BoosterSoftStart", Bytes(<<\HC7, \HCC, \H28>>)))
    \o Try(command("PowerOn"))
    \o delay_us(5000)
    \o Try(wait_until_idle("epd7in5"))
    \o Try(cmd_with_data("PllControl", Bytes(<<\H3C>>)))
    \o Try(cmd_with_data("TemperatureCalibration", Bytes(<<\H00>>)))
    \o Try(cmd_with_data("VcomAndDataIntervalSetting", Bytes(<<\H77>>)))
    \o Try(cmd_with_data("TconSetting", Bytes(<<\H22>>)))
    \o Try(Call(send_resolution_epd7in5))
    \o Try(cmd_with_data("VcmDcSetting", Bytes(<<\H1E>>)))
    \o Try(cmd_with_data("FlashMode", Bytes(<<\H03>>)))
    \o Try(wait_until_idle("epd7in5"))

sleep_epd7in5 ==
    Try(wait_until_idle("epd7in5"))
    \o Try(command("PowerOff"))
    \o Try(wait_until_idle("epd7in5"))
    \o Try(cmd_with_data("DeepSleep", Bytes(<<\HA5>>)))

RECURSIVE ExpandByte_low_nibble_first(_, _)
ExpandByte_low_nibble_first(temp, k) ==
    IF k = 0 THEN <<>>
    ELSE LET lo == IF (temp \div 128) % 2 = 0 THEN \H00 ELSE \H03
             t1 == (temp * 2) % 256
             hi == IF (t1 \div 128) % 2 = 0 THEN \H00 ELSE \H03
             t2 == (t1 * 2) % 256
         IN <<((hi * 16) % 256) + lo>> \o ExpandByte_low_nibble_first(t2, k - 1)

\* The inner loop of update_frame: the 4 bytes one source byte expands to.
RECURSIVE ExpandByte(_, _)
ExpandByte(temp, k) ==
    IF k = 0 THEN <<>>
    ELSE LET hi == IF (temp \div 128) % 2 = 0 THEN \H00 ELSE \H03
             t1 == (temp * 2) % 256
             lo == IF (t1 \div 128) % 2 = 0 THEN \H00 ELSE \H03
             t2 == (t1 * 2) % 256
         IN <<((hi * 16) % 256) + lo>> \o ExpandByte(t2, k - 1)

\* The outer loop of update_frame over the buffer, run by run.
RECURSIVE ExpandRuns(_, _)
ExpandRuns(buffer, out) ==
    IF buffer = <<>> THEN out
    ELSE LET b == buffer[1][1]
             n == buffer[1][2]
         IN IF n = 0 THEN ExpandRuns(Tail(buffer), out)
            ELSE IF b \in {0, 255}
                 THEN ExpandRuns(Tail(buffer), AddRun(out, ExpandByte(b, 4)[1], 4 * n))
                 ELSE ExpandRuns(<< <<b, n - 1>> >> \o Tail(buffer),
                                 CatRuns(out, Bytes(ExpandByte(b, 4))))

update_frame_epd7in5(buffer, bg) ==
    Try(wait_until_idle("epd7in5"))
    \o Try(command("DataStartTransmission1"))
    \o Try(send_data(ExpandRuns(buffer, <<>>)))

\* unimplemented!()
update_partial_frame_epd7in5(buffer, x, y, width, height) == panic

display_frame_epd7in5 ==
    Try(wait_until_idle("epd7in5"))
    \o Try(command("DisplayRefresh"))

update_and_display_frame_epd7in5_dropping_error(buffer, bg) ==
    Call(update_frame_epd7in5(buffer, bg))
    \o Try(command("DisplayRefresh"))

update_and_display_frame_epd7in5(buffer, bg) ==
    Try(Call(update_frame_epd7in5(buffer, bg)))
    \o Try(command("DisplayRefresh"))

clear_frame_epd7in5_background_fill(bg) ==
    Try(wait_until_idle("epd7in5"))
    \o Try(Call(send_resolution_epd7in5))
    \o Try(command("DataStartTransmission1"))
    \o Try(data_x_times(get_byte_value(bg), ((WIDTH_epd7in5 \div 8) * HEIGHT_epd7in5) * 4))

clear_frame_epd7in5(bg) ==
    Try(wait_until_idle("epd7in5"))
    \o Try(Call(send_resolution_epd7in5))
    \o Try(command("DataStartTransmission1"))
    \o Try(data_x_times(\H33, ((WIDTH_epd7in5 \div 8) * HEIGHT_epd7in5) * 4))

set_lut_epd7in5(refresh_rate) == panic

(* ------------------------------ epd7in5_hd ---------------------------- *)

init_epd7in5_hd ==
    reset(10000, 2000)
    \o Try(wait_until_idle("epd7in5_hd"))
    \o Try(command("SwReset"))
    \o Try(wait_until_idle("epd7in5_hd"))
    \o Try(cmd_with_data("AutoWriteRed", Bytes(<<\HF7>>)))
    \o Try(wait_until_idle("epd7in5_hd"))
    \o Try(cmd_with_data("AutoWriteBw", Bytes(<<\HF7>>)))
    \o Try(wait_until_idle("epd7in5_hd"))
    \o Try(cmd_with_data("SoftStart", Bytes(<<\HAE, \HC7, \HC3, \HC0, \H40>>)))
    \o Try(cmd_with_data("DriverOutputControl", Bytes(<<\HAF, \H02, \H01>>)))
    \o Try(cmd_with_data("DataEntry", Bytes(<<\H01>>)))
    \o Try(cmd_with_data("SetRamXStartEnd", Bytes(<<\H00, \H00, \H6F, \H03>>)))
    \o Try(cmd_with_data("SetRamYStartEnd", Bytes(<<\HAF, \H02, \H00, \H00>>)))
    \o Try(cmd_with_data("VbdControl", Bytes(<<\H05>>)))
    \o Try(cmd_with_data("TemperatureSensorControl", Bytes(<<\H80>>)))
    \o Try(cmd_with_data("DisplayUpdateControl2", Bytes(<<\HB1>>)))
    \o Try(command("MasterActivation"))
    \o Try(wait_until_idle("epd7in5_hd"))
    \o Try(cmd_with_data("SetRamXAc", Bytes(<<\H00, \H00>>)))
    \o Try(cmd_with_data("SetRamYAc", Bytes(<<\H00, \H00>>)))

sleep_epd7in5_hd ==
    Try(wait_until_idle("epd7in5_hd"))
    \o Try(cmd_with_data("DeepSleep", Bytes(<<\H01>>)))

update_frame_epd7in5_hd(buffer, bg) ==
    Try(wait_until_idle("epd7in5_hd"))
    \o Try(cmd_with_data("SetRamYAc", Bytes(<<\H00, \H00>>)))
    \o Try(cmd_with_data("WriteRamBw", buffer))
    \o Try(cmd_with_data("DisplayUpdateControl2", Bytes(<<\HF7>>)))

\* unimplemented!()
update_partial_frame_epd7in5_hd(buffer, x, y, width, height) == panic

display_frame_epd7in5_hd ==
    Try(command("MasterActivation"))
    \o Try(wait_until_idle("epd7in5_hd"))

update_and_display_frame_epd7in5_hd(buffer, bg) ==
    Try(Call(update_frame_epd7in5_hd(buffer, bg)))
    \o Try(Call(display_frame_epd7in5_hd))

clear_frame_epd7in5_hd(bg) ==
    Try(wait_until_idle("epd7in5_hd"))
    \o Try(cmd_with_data("SetRamYAc", Bytes(<<\H00, \H00>>)))
    \o Try(command("WriteRamBw"))
    \o Try(data_x_times(get_byte_value(bg), (WIDTH_epd7in5_hd * HEIGHT_epd7in5_hd) \div 8))
    \o Try(command("WriteRamRed"))
    \o Try(data_x_times(get_byte_value(bg), (WIDTH_epd7in5_hd * HEIGHT_epd7in5_hd) \div 8))
    \o Try(cmd_with_data("DisplayUpdateControl2", Bytes(<<\HF7>>)))
    \o Try(command("MasterActivation"))
    \o Try(wait_until_idle("epd7in5_hd"))

set_lut_epd7in5_hd(refresh_rate) == panic

(* ------------------------------ the driver ---------------------------- *)

init(m) ==
    CASE m = "epd1in54c" -> init_epd1in54c
      [] m = "epd2in7b" -> init_epd2in7b
      [] m = "epd2in9bc" -> init_epd2in9bc
      [] m = "epd3in7" -> init_epd3in7
      [] m = "epd7in5" -> init_epd7in5
      [] m = "epd7in5_hd" -> init_epd7in5_hd

new_dropping_error(m) == Call(init(m))

\* fn new: epd.init(spi, delay).await?; Ok(epd)
new(m) == Try(Call(init(m)))

wake_up_without_reset(m) == Try(Call(Tail(init(m))))

wake_up_reset_last(m) == Try(Call(Tail(init(m)) \o <<Head(init(m))>>))

\* fn wake_up: self.init(spi, delay).await
wake_up(m) == Try(Call(init(m)))

sleep(m) ==
    CASE m = "epd1in54c" -> sleep_epd1in54c
      [] m = "epd2in7b" -> sleep_epd2in7b
      [] m = "epd2in9bc" -> sleep_epd2in9bc
      [] m = "epd3in7" -> sleep_epd3in7
      [] m = "epd7in5" -> sleep_epd7in5
      [] m = "epd7in5_hd" -> sleep_epd7in5_hd

update_frame(m, buffer, bg) ==
    CASE m = "epd1in54c" -> update_frame_epd1in54c(buffer, bg)
      [] m = "epd2in7b" -> update_frame_epd2in7b(buffer, bg)
      [] m = "epd2in9bc" -> update_frame_epd2in9bc(buffer, bg)
      [] m = "epd3in7" -> update_frame_epd3in7(buffer, bg)
      [] m = "epd7in5" -> update_frame_epd7in5(buffer, bg)
      [] m = "epd7in5_hd" -> update_frame_epd7in5_hd(buffer, bg)

display_frame(m) ==
    CASE m = "epd1in54c" -> display_frame_epd1in54c
      [] m = "epd2in7b" -> display_frame_epd2in7b
      [] m = "epd2in9bc" -> display_frame_epd2in9bc
      [] m = "epd3in7" -> display_frame_epd3in7
      [] m = "epd7in5" -> display_frame_epd7in5
      [] m = "epd7in5_hd" -> display_frame_epd7in5_hd

update_and_display_frame(m, buffer, bg) ==
    CASE m = "epd1in54c" -> update_and_display_frame_epd1in54c(buffer, bg)
      [] m = "epd2in7b" -> update_and_display_frame_epd2in7b(buffer, bg)
      [] m = "epd2in9bc" -> update_and_display_frame_epd2in9bc(buffer, bg)
      [] m = "epd3in7" -> update_and_display_frame_epd3in7(buffer, bg)
      [] m = "epd7in5" -> update_and_display_frame_epd7in5(buffer, bg)
      [] m = "epd7in5_hd" -> update_and_display_frame_epd7in5_hd(buffer, bg)

clear_frame(m, bg) ==
    CASE m = "epd1in54c" -> clear_frame_epd1in54c(bg)
      [] m = "epd2in7b" -> clear_frame_epd2in7b(bg)
      [] m = "epd2in9bc" -> clear_frame_epd2in9bc(bg)
      [] m = "epd3in7" -> clear_frame_epd3in7(bg)
      [] m = "epd7in5" -> clear_frame_epd7in5(bg)
      [] m = "epd7in5_hd" -> clear_frame_epd7in5_hd(bg)

set_lut(m, refresh_rate) ==
    CASE m = "epd1in54c" -> set_lut_epd1in54c(refresh_rate)
      [] m = "epd2in7b" -> set_lut_epd2in7b(refresh_rate)
      [] m = "epd2in9bc" -> set_lut_epd2in9bc(refresh_rate)
      [] m = "epd3in7" -> set_lut_epd3in7(refresh_rate)
      [] m = "epd7in5" -> set_lut_epd7in5(refresh_rate)
      [] m = "epd7in5_hd" -> set_lut_epd7in5_hd(refresh_rate)

update_partial_frame(m, buffer, x, y, width, height) ==
    CASE m = "epd1in54c" -> update_partial_frame_epd1in54c(buffer, x, y, width, height)
      [] m = "epd2in7b" -> update_partial_frame_epd2in7b(buffer, x, y, width, height)
      [] m = "epd2in9bc" -> update_partial_frame_epd2in9bc(buffer, x, y, width, height)
      [] m = "epd3in7" -> update_partial_frame_epd3in7(buffer, x, y, width, height)
      [] m = "epd7in5" -> update_partial_frame_epd7in5(buffer, x, y, width, height)
      [] m = "epd7in5_hd" -> update_partial_frame_epd7in5_hd(buffer, x, y, width, height)

\* The drivers that implement WaveshareThreeColorDisplay.
ThreeColorModels == {"epd1in54c", "epd2in7b", "epd2in9bc"}

update_achromatic_frame(m, black) ==
    CASE m = "epd1in54c" -> update_achromatic_frame_epd1in54c(black)
      [] m = "epd2in7b" -> update_achromatic_frame_epd2in7b(black)
      [] m = "epd2in9bc" -> update_achromatic_frame_epd2in9bc(black)

update_chromatic_frame(m, chromatic) ==
    CASE m = "epd1in54c" -> update_chromatic_frame_epd1in54c(chromatic)
      [] m = "epd2in7b" -> update_chromatic_frame_epd2in7b(chromatic)
      [] m = "epd2in9bc" -> update_chromatic_frame_epd2in9bc(chromatic)

update_color_frame(m, black, chromatic) ==
    CASE m = "epd1in54c" -> update_color_frame_epd1in54c(black, chromatic)
      [] m = "epd2in7b" -> update_color_frame_epd2in7b(black, chromatic)
      [] m = "epd2in9bc" -> update_color_frame_epd2in9bc(black, chromatic)

(* ------------------------------- inputs ------------------------------- *)

\* The expected length of the buffer update_frame takes.
ExpectedLen(m) == buffer_len(WIDTH(m), HEIGHT(m))

\* The pixel buffers handed to the driver: all-zero ones of the expected length
\* and of the lengths around it, the empty one, and of the expected length an
\* all-ones one and one that starts with a byte of mixed bits.
Buffers(m) ==
    {AddRun(<<>>, 0, n) :
        n \in (ExpectedLen(m) - MaxLenDelta)..(ExpectedLen(m) + MaxLenDelta)}
    \cup {<<>>, AddRun(<<>>, 255, ExpectedLen(m)),
          << <<\HA5, 1>>, <<0, ExpectedLen(m) - 1>> >>}

\* The planes handed to update_color_frame: of the expected length, all
\* zeros, all ones, and one that starts with a byte of mixed bits.
Planes(m) ==
    {AddRun(<<>>, 0, ExpectedLen(m)), AddRun(<<>>, 255, ExpectedLen(m)),
     << <<\H5A, 1>>, <<255, ExpectedLen(m) - 1>> >>}

\* The coordinates and extents of the rectangles handed to the partial
\* methods: on and off the 8-pixel grid, below and above one byte.
Coords == {0, 5, 10, 271}

Rect(x, y, width, height) == [x |-> x, y |-> y, width |-> width, height |-> height]

NoRect == Rect(0, 0, 0, 0)

\* The rectangles: every pair of an x and a width, and the whole panel; on
\* hardware that may fail, one rectangle.
Rects(f) ==
    IF f = "none"
    THEN {Rect(x, 259, w, 5) : x \in Coords, w \in Coords}
         \cup {Rect(0, 0, WIDTH_epd2in7b, HEIGHT_epd2in7b)}
    ELSE {Rect(5, 259, 10, 5)}

\* The pairs of planes handed to update_color_frame: every pair; on hardware
\* that may fail, one pair.
ColorFrames(m, f) ==
    IF f = "none"
    THEN Planes(m) \X Planes(m)
    ELSE {<< << <<\H5A, 1>>, <<255, ExpectedLen(m) - 1>> >>, AddRun(<<>>, 0, ExpectedLen(m)) >>}

\* The buffer handed to the partial methods.
PartialBuffers == {<< <<\HA5, 1>>, <<0, 3>> >>}

\* Whether a script can start a refresh.
RECURSIVE Refreshes(_, _)
Refreshes(m, script) ==
    /\ script # <<>>
    /\ \/ Head(script).k = "cmd" /\ Head(script).c = RefreshCommand(m)
       \/ Head(script).k = "call" /\ Refreshes(m, Head(script).body)
       \/ Refreshes(m, Tail(script))

\* The environments a call can meet, by the faults the hardware shows
\* ("none", "bus": a bus transfer may fail, "pin": a pin operation may fail):
\* at most one fault in a call.
Envs(m, script, f) ==
    LET durs == IF Refreshes(m, script) THEN 0..MaxBusy ELSE {0}
    IN {Env(0, FALSE, 0, d) : d \in durs}
       \cup (IF f = "bus"
             THEN {Env(n, l, 0, d) : n \in 1..CountBus(script), l \in BOOLEAN, d \in durs}
             ELSE {})
       \cup (IF f = "pin"
             THEN {Env(0, FALSE, n, d) : n \in 1..CountPin(script), d \in durs}
             ELSE {})

(* ------------------------------- actions ------------------------------ *)

\* The waveform table the controller holds after a call: the last one the call
\* transmitted, else the one it held before the call.
lut_after(trace, before) ==
    LET IsTable(e) == e.k = "table"
        sent == SelectSeq(trace, IsTable)
    IN IF sent = <<>> THEN before ELSE sent[Len(sent)].c

\* The table the controller holds now.
lut_held == lut_after(lastOp.trace, lastOp.lutBefore)

color_after_reinit(name, c) == IF name = "wake_up" THEN DEFAULT_BACKGROUND_COLOR ELSE c

\* The background color a method leaves in the driver: of the methods that
\* talk to the panel none assigns the field.
color_after(name, c) == c

NoOp ==
    [name |-> "none", buffer |-> <<>>, chromatic |-> <<>>, rect |-> NoRect, arg |-> "",
     wasAsleep |-> FALSE, afterClear |-> <<>>, lutBefore |-> "", res |-> "Ok",
     trace |-> <<>>, waits |-> <<>>, early |-> FALSE, pinFault |-> FALSE,
     bn |-> 0, pn |-> 0]

InitWith(f) ==
    /\ model \in Models
    /\ faults = f
    /\ drv = "none"
    /\ color = DEFAULT_BACKGROUND_COLOR
    /\ asleep = FALSE
    /\ panelBusy = 0
    /\ initTrace = <<>>
    /\ lastOp = NoOp
    /\ pending = <<>>

\* Hardware whose bus and pins never fail.
Init == InitWith("none")

\* Hardware whose bus transfers may fail.
InitBusFaults == InitWith("bus")

\* Hardware whose pin operations may fail.
InitPinFaults == InitWith("pin")

\* What a finished call leaves behind; afterClear: the trace of the call before
\* it, when that was a clear_frame that returned Ok.
DoneWith(name, buffer, chromatic, rect, arg, env, r) ==
    [name |-> name, buffer |-> buffer, chromatic |-> chromatic, rect |-> rect, arg |-> arg,
     wasAsleep |-> asleep,
     afterClear |-> IF lastOp.name = "clear_frame" /\ lastOp.res = "Ok" THEN lastOp.trace
                    ELSE <<>>,
     lutBefore |-> lut_held,
     res |-> r.res,
     trace |-> r.trace, waits |-> r.waits, early |-> r.early, pinFault |-> r.pinFault,
     bn |-> env.bn, pn |-> env.pn]

Done(name, buffer, arg, env, r) == DoneWith(name, buffer, <<>>, NoRect, arg, env, r)

\* A panic ends the program, a wait that never ends blocks it; a run is
\* followed up to its first hardware fault.
After(env, r) ==
    IF r.res = "Panic" THEN "aborted"
    ELSE IF r.res = "Hang" THEN "hung"
    ELSE IF env.bn > 0 \/ env.pn > 0 THEN "faulted"
    ELSE "ready"

\* A method call that changes nothing of the driver but what it sends.
MethodWith(name, buffer, chromatic, rect, arg, script) ==
    /\ drv = "ready"
    /\ \E env \in Envs(model, script, faults) :
          LET r == Exec(model, script, env, Start(panelBusy))
          IN /\ lastOp' = DoneWith(name, buffer, chromatic, rect, arg, env, r)
             /\ panelBusy' = r.busy
             /\ drv' = After(env, r)
             /\ asleep' = IF r.res # "Ok" THEN asleep
                          ELSE IF name = "sleep" THEN TRUE
                          ELSE IF name = "wake_up" THEN FALSE
                          ELSE asleep
    /\ color' = color_after(name, color)
    /\ UNCHANGED <<model, faults, initTrace, pending>>

Method(name, buffer, arg, script) == MethodWith(name, buffer, <<>>, NoRect, arg, script)

New ==
    /\ drv = "none"
    /\ \E env \in Envs(model, new(model), faults) :
          LET r == Exec(model, new(model), env, Start(panelBusy))
          IN /\ lastOp' = Done("new", <<>>, "", env, r)
             /\ panelBusy' = r.busy
             /\ drv' = IF r.res = "Err" /\ After(env, r) = "ready" THEN "none"
                       ELSE After(env, r)
             /\ initTrace' = IF r.res = "Ok" THEN r.trace ELSE initTrace
    /\ color' = DEFAULT_BACKGROUND_COLOR
    /\ asleep' = FALSE
    /\ UNCHANGED <<model, faults, pending>>

WakeUp == Method("wake_up", <<>>, "", wake_up(model))

Sleep == Method("sleep", <<>>, "", sleep(model))

UpdateFrame ==
    \E buffer \in Buffers(model) :
        Method("update_frame", buffer, "", update_frame(model, buffer, color))

DisplayFrame == Method("display_frame", <<>>, "", display_frame(model))

UpdateAndDisplayFrame ==
    \E buffer \in Buffers(model) :
        Method("update_and_display_frame", buffer, "",
               update_and_display_frame(model, buffer, color))

ClearFrame == Method("clear_frame", <<>>, "", clear_frame(model, color))

SetLut ==
    \E refresh_rate \in RefreshLuts :
        Method("set_lut", <<>>, refresh_rate, set_lut(model, refresh_rate))

WaitUntilIdle == Method("wait_until_idle", <<>>, "", wait_until_idle(model))

UpdatePartialFrame ==
    \E buffer \in PartialBuffers, r \in Rects(faults) :
        MethodWith("update_partial_frame", buffer, <<>>, r, "",
                   update_partial_frame(model, buffer, r.x, r.y, r.width, r.height))

\* WaveshareThreeColorDisplay::update_color_frame
UpdateColorFrame ==
    /\ model \in ThreeColorModels
    /\ \E planes \in ColorFrames(model, faults) :
          MethodWith("update_color_frame", planes[1], planes[2], NoRect, "",
                     update_color_frame(model, planes[1], planes[2]))

\* Epd2in7b::display_partial_frame
DisplayPartialFrame ==
    /\ model = "epd2in7b"
    /\ \E r \in Rects(faults) :
          MethodWith("display_partial_frame", <<>>, <<>>, r, "",
                     display_partial_frame(r.x, r.y, r.width, r.height))

\* Epd2in7b::update_partial_achromatic_frame
UpdatePartialAchromaticFrame ==
    /\ model = "epd2in7b"
    /\ \E achromatic \in PartialBuffers, r \in Rects(faults) :
          MethodWith("update_partial_achromatic_frame", achromatic, <<>>, r, "",
                     update_partial_achromatic_frame(achromatic, r.x, r.y, r.width, r.height))

\* Epd2in7b::update_partial_chromatic_frame
UpdatePartialChromaticFrame ==
    /\ model = "epd2in7b"
    /\ \E chromatic \in PartialBuffers, r \in Rects(faults) :
          MethodWith("update_partial_chromatic_frame", <<>>, chromatic, r, "",
                     update_partial_chromatic_frame(chromatic, r.x, r.y, r.width, r.height))

\* Epd2in9bc::set_border_color
SetBorderColor ==
    /\ model = "epd2in9bc"
    /\ \E c \in TriColors :
          MethodWith("set_border_color", <<>>, <<>>, NoRect, c, set_border_color(c))

background_color_default == DEFAULT_BACKGROUND_COLOR

\* fn background_color: &self.color
background_color == color

\* fn set_background_color
SetBackgroundColor ==
    /\ drv = "ready"
    /\ \E c \in Colors :
          /\ color' = c
          /\ lastOp' = [NoOp EXCEPT !.name = "set_background_color", !.arg = c,
                                    !.wasAsleep = asleep, !.lutBefore = lut_held]
    /\ UNCHANGED <<model, faults, drv, asleep, panelBusy, initTrace, pending>>

\* Time passes between two calls of the application: the panel gets on with
\* its refresh.
PanelTick ==
    /\ panelBusy > 0
    /\ panelBusy' = panelBusy - 1
    /\ UNCHANGED <<model, faults, drv, color, asleep, initTrace, lastOp, pending>>

Next ==
    \/ New
    \/ WakeUp
    \/ Sleep
    \/ UpdateFrame
    \/ DisplayFrame
    \/ UpdateAndDisplayFrame
    \/ ClearFrame
    \/ SetLut
    \/ WaitUntilIdle
    \/ UpdatePartialFrame
    \/ UpdateColorFrame
    \/ DisplayPartialFrame
    \/ UpdatePartialAchromaticFrame
    \/ UpdatePartialChromaticFrame
    \/ SetBorderColor
    \/ SetBackgroundColor
    \/ PanelTick

Spec == Init /\ [][Next]_vars

SpecBusFaults == InitBusFaults /\ [][Next]_vars

SpecPinFaults == InitPinFaults /\ [][Next]_vars

(* --------------------- calls taken one step at a time ------------------ *)

\* The calls below are those of Next, taken one call into the interface at a
\* time and one poll of the busy line at a time: `pending` holds the calls
\* into the interface the method has still to make, a wait at its head
\* carrying the polls it has made so far.

wait_gives_up_after_bound(polls) == polls > MaxBusy

\* Whether the polling loop of DisplayInterface::wait_until_idle leaves while
\* the line still reads busy: it has no timeout.
wait_gives_up(polls) == FALSE

\* The level the busy line shows: a line that is stuck shows the level of a
\* working panel whatever the panel does.
BusyLineRead(m, left, f) == IF f = "stuck" THEN BusyLine(m, 1) ELSE BusyLine(m, left)

\* The methods that wait for the panel, with their scripts.
WaitingCalls(m, bg) ==
    {<<"display_frame", display_frame(m)>>,
     <<"update_and_display_frame",
       update_and_display_frame(m, AddRun(<<>>, 0, ExpectedLen(m)), bg)>>,
     <<"clear_frame", clear_frame(m, bg)>>,
     <<"sleep", sleep(m)>>,
     <<"wait_until_idle", wait_until_idle(m)>>}

\* After construction: new has run.
InitWaiting ==
    /\ model \in Models
    /\ faults = "none"
    /\ drv = "ready"
    /\ color = DEFAULT_BACKGROUND_COLOR
    /\ asleep = FALSE
    /\ panelBusy = 0
    /\ initTrace = Exec(model, new(model), Env(0, FALSE, 0, 0), Start(0)).trace
    /\ lastOp = [NoOp EXCEPT !.name = "new", !.trace = initTrace]
    /\ pending = <<>>

\* The application calls a method.
BeginCall ==
    /\ drv = "ready"
    /\ \E c \in WaitingCalls(model, color) :
          /\ pending' = Flatten(c[2])
          /\ lastOp' = [NoOp EXCEPT !.name = c[1], !.res = "Pending", !.wasAsleep = asleep]
    /\ drv' = "calling"
    /\ UNCHANGED <<model, faults, color, asleep, panelBusy, initTrace>>

\* What is left of the call after its head: with nothing left it returns.
Proceed(trace, waits) ==
    /\ pending' = Tail(pending)
    /\ drv' = IF Tail(pending) = <<>> THEN "ready" ELSE "calling"
    /\ lastOp' = [lastOp EXCEPT !.trace = trace, !.waits = waits,
                                !.res = IF Tail(pending) = <<>> THEN "Ok" ELSE "Pending"]
    /\ asleep' = IF Tail(pending) = <<>> /\ lastOp.name = "sleep" THEN TRUE ELSE asleep

\* The method makes its next call into the interface, other than a wait.
RunStep ==
    /\ drv = "calling"
    /\ Head(pending).k # "wait"
    /\ \E dur \in 0..MaxBusy :
          LET r == Prim(model, Head(pending), Env(0, FALSE, 0, dur),
                        [Start(panelBusy) EXCEPT !.trace = lastOp.trace])
          IN /\ Proceed(r.trace, lastOp.waits)
             /\ panelBusy' = r.busy
    /\ UNCHANGED <<model, faults, color, initTrace>>

\* One turn of the polling loop: the line is read; while it reads busy the
\* loop goes on (and time passes), otherwise the wait is over.
PollBusy ==
    /\ drv = "calling"
    /\ Head(pending).k = "wait"
    /\ LET polls == IF Head(pending).t = <<>> THEN 0 ELSE Head(pending).t[1]
           level == BusyLineRead(model, panelBusy, faults)
       IN IF is_busy(level, IS_BUSY_LOW(model)) /\ ~wait_gives_up(polls)
          THEN /\ pending' = [pending EXCEPT
                                 ![1].t = <<IF polls > MaxBusy + 1 THEN polls ELSE polls + 1>>]
               /\ panelBusy' = IF panelBusy > 0 THEN panelBusy - 1 ELSE 0
               /\ UNCHANGED <<drv, lastOp, asleep>>
          ELSE /\ Proceed(Append(lastOp.trace, Event("wait", "", <<>>, <<>>)),
                          Append(lastOp.waits, [n |-> polls, reads |-> polls + 1,
                                                left |-> panelBusy]))
               /\ UNCHANGED panelBusy
    /\ UNCHANGED <<model, faults, color, initTrace>>

\* A hardware fault: from now on the busy line is stuck at the busy level.
BusyLineSticks ==
    /\ faults = "none"
    /\ faults' = "stuck"
    /\ UNCHANGED <<model, drv, color, asleep, panelBusy, initTrace, lastOp, pending>>

NextWaiting ==
    \/ BeginCall
    \/ RunStep
    \/ PollBusy
    \/ BusyLineSticks
    \/ PanelTick

\* The executor keeps running the call: the method goes on to its next step
\* and the polling loop to its next poll.
SpecWaiting ==
    InitWaiting /\ [][NextWaiting]_vars /\ WF_vars(RunStep) /\ WF_vars(PollBusy)

(* ------------------------------- claims ------------------------------- *)

\* The trace a script emits on hardware that is idle and does not fail.
TraceOf(m, script) == Exec(m, script, Env(0, FALSE, 0, 0), Start(0)).trace

\* Whether an event is traffic on the bus (a command byte or data bytes, sent
\* or attempted).
IsBus(e) == e.k \in {"cmd", "data", "table", "fail"}

NoBusTraffic(trace) == \A i \in 1..Len(trace) : ~IsBus(trace[i])

HasCmd(trace, c) == \E i \in 1..Len(trace) : trace[i].k = "cmd" /\ trace[i].c = c

\* The data bytes that follow the first occurrence of command c.
DataAfter(trace, c) ==
    LET at == {i \in 1..Len(trace) : trace[i].k = "cmd" /\ trace[i].c = c}
        i == CHOOSE i \in at : \A j \in at : i <= j
    IN IF at = {} THEN <<>>
       ELSE IF i < Len(trace) /\ trace[i + 1].k = "data" THEN trace[i + 1].d
       ELSE <<>>

\* The models with an achromatic and a chromatic plane.
DualPlane == {"epd1in54c", "epd2in7b", "epd2in9bc"}

\* What a byte of pixel data is on the wire: epd2in7b flips every byte.
WireRuns(m, runs) == IF m = "epd2in7b" THEN NotRuns(runs) ELSE runs

WireByte(m, c) == IF m = "epd2in7b" THEN Not8(get_byte_value(c)) ELSE get_byte_value(c)

\* C1: update_frame with a buffer whose length is not ceil(WIDTH*HEIGHT/8)
\* fails and puts no command byte and no data byte on the bus.
C1_WrongLengthRejected ==
    (lastOp.name = "update_frame" /\ RunsLen(lastOp.buffer) # ExpectedLen(model))
        => (lastOp.res # "Ok" /\ NoBusTraffic(lastOp.trace))

\* C2: once sleep has completed, every operation but wake_up is rejected and
\* puts nothing on the bus.
C2_RejectedWhileAsleep ==
    (lastOp.wasAsleep
     /\ lastOp.name \in {"update_frame", "display_frame", "update_and_display_frame",
                         "clear_frame", "set_lut", "sleep"})
        => (lastOp.res # "Ok" /\ NoBusTraffic(lastOp.trace))

\* C3: the trace of a wake_up equals the trace of the init step of new,
\* whatever was done to the driver in between.
C3_WakeUpRepeatsInit ==
    (lastOp.name = "wake_up" /\ lastOp.res = "Ok") => lastOp.trace = initTrace

C3_Witness ==
    /\ lastOp.name = "wake_up"
    /\ lastOp.res = "Ok"
    /\ lastOp.wasAsleep
    /\ color = "Black"
    /\ Len(lastOp.trace) > 1

\* C4: display_frame sends the refresh command and then waits: when it returns
\* Ok, a wait that saw the idle level follows the refresh command and the
\* panel has finished.
C4_DisplayWaitsAfterRefresh ==
    (lastOp.name = "display_frame" /\ lastOp.res = "Ok")
        => /\ panelBusy = 0
           /\ \E i, j \in 1..Len(lastOp.trace) :
                 /\ i < j
                 /\ lastOp.trace[i].k = "cmd"
                 /\ lastOp.trace[i].c = RefreshCommand(model)
                 /\ lastOp.trace[j].k = "wait"

\* C5: the trace of update_and_display_frame(buffer) is the trace of
\* update_frame(buffer) followed by the trace of display_frame.
C5_UpdateAndDisplayIsUpdateThenDisplay ==
    (lastOp.name = "update_and_display_frame" /\ lastOp.res = "Ok")
        => lastOp.trace = TraceOf(model, update_frame(model, lastOp.buffer, color))
                          \o TraceOf(model, display_frame(model))

\* C6: no command or data byte of an operation is sent while the panel is
\* still busy with the refresh an earlier operation started.
C6_NoTrafficWhileRefreshing == ~lastOp.early

\* C7: when update_frame fails with a bus error inside
\* update_and_display_frame, the error is returned and no refresh command is
\* emitted afterwards.
C7_NoRefreshAfterFailedUpdate ==
    (lastOp.name = "update_and_display_frame"
     /\ lastOp.bn \in 1..CountBus(update_frame(model, lastOp.buffer, color)))
        => /\ lastOp.res = "Err"
           /\ ~HasCmd(lastOp.trace, RefreshCommand(model))
           /\ lastOp.trace[Len(lastOp.trace)].k = "fail"

C7_Witness ==
    /\ lastOp.name = "update_and_display_frame"
    /\ lastOp.bn > 1
    /\ lastOp.bn = CountBus(update_frame(model, lastOp.buffer, color))
    /\ lastOp.res = "Err"

\* C8: an operation during which a pin operation failed does not report
\* success.
C8_PinFaultIsReported == lastOp.pinFault => lastOp.res # "Ok"

C10_UpdateFrameClearsChromatic ==
    (model \in DualPlane /\ lastOp.name = "update_frame" /\ lastOp.res = "Ok")
        => /\ DataAfter(lastOp.trace, "DataStartTransmission1")
                = WireRuns(model, lastOp.buffer)
           /\ DataAfter(lastOp.trace, "DataStartTransmission2")
                = AddRun(<<>>, WireByte(model, color), (WIDTH(model) * HEIGHT(model)) \div 8)
           /\ \E i, j \in 1..Len(lastOp.trace) :
                 /\ i < j
                 /\ lastOp.trace[i].k = "cmd" /\ lastOp.trace[i].c = "DataStartTransmission1"
                 /\ lastOp.trace[j].k = "cmd" /\ lastOp.trace[j].c = "DataStartTransmission2"

C10_Witness ==
    /\ model \in DualPlane
    /\ lastOp.name = "update_frame"
    /\ lastOp.res = "Ok"
    /\ color = "Black"
    /\ Len(lastOp.buffer) = 2

\* The i-th byte of a run-length encoded byte sequence.
RECURSIVE ByteAt(_, _)
ByteAt(runs, i) ==
    IF i <= runs[1][2] THEN runs[1][1] ELSE ByteAt(Tail(runs), i - runs[1][2])

\* The position of the first occurrence of command c in a trace, 0 if none.
CmdAt(trace, c) ==
    LET at == {i \in 1..Len(trace) : trace[i].k = "cmd" /\ trace[i].c = c}
    IN IF at = {} THEN 0 ELSE CHOOSE i \in at : \A j \in at : i <= j

\* C11: on the dual-plane models update_color_frame emits the whole
\* achromatic transmission before the chromatic command: whenever the chromatic
\* command is in the trace, the achromatic command and all bytes of the
\* achromatic plane precede it; a call that returns Ok has sent both planes;
\* and when a bus transfer of the achromatic step fails, the call fails and no
\* chromatic command is emitted.
C11_AchromaticBeforeChromatic ==
    lastOp.name = "update_color_frame"
        => LET a == CmdAt(lastOp.trace, "DataStartTransmission1")
               c == CmdAt(lastOp.trace, "DataStartTransmission2")
           IN /\ c > 0 => /\ 0 < a
                          /\ a + 1 < c
                          /\ lastOp.trace[a + 1].k = "data"
                          /\ lastOp.trace[a + 1].d = WireRuns(model, lastOp.buffer)
              /\ lastOp.res = "Ok"
                    => /\ c > 0
                       /\ DataAfter(lastOp.trace, "DataStartTransmission2")
                            = WireRuns(model, lastOp.chromatic)
              /\ lastOp.bn \in 1..CountBus(update_achromatic_frame(model, lastOp.buffer))
                    => /\ lastOp.res = "Err"
                       /\ c = 0

C11_Witness ==
    /\ lastOp.name = "update_color_frame"
    /\ lastOp.bn > 1
    /\ lastOp.bn = CountBus(update_achromatic_frame(model, lastOp.buffer))
    /\ lastOp.res = "Err"
    /\ HasCmd(lastOp.trace, "DataStartTransmission1")

\* The partial methods of epd2in7b.
PartialMethods ==
    {"update_partial_frame", "update_partial_achromatic_frame",
     "update_partial_chromatic_frame", "display_partial_frame"}

\* The largest multiple of 8 that is not above the low byte of v.
Floor8OfLowByte(v) ==
    CHOOSE k \in 0..255 : k % 8 = 0 /\ k <= v % 256 /\ v % 256 < k + 8

\* C12: in the partial methods of epd2in7b the low byte sent for x and the low
\* byte sent for width (the 2nd and the 6th byte after the command) are the
\* largest multiple of 8 not above the low byte of the input: masked down,
\* never rounded up.
C12_PartialWindowMaskedDown ==
    (model = "epd2in7b" /\ lastOp.name \in PartialMethods /\ lastOp.res = "Ok")
        => /\ lastOp.trace[1].k = "cmd"
           /\ lastOp.trace[2].k = "data"
           /\ RunsLen(lastOp.trace[2].d) = 8
           /\ ByteAt(lastOp.trace[2].d, 2) = Floor8OfLowByte(lastOp.rect.x)
           /\ ByteAt(lastOp.trace[2].d, 6) = Floor8OfLowByte(lastOp.rect.width)

C12_Witness ==
    /\ model = "epd2in7b"
    /\ lastOp.name = "display_partial_frame"
    /\ lastOp.res = "Ok"
    /\ lastOp.rect.x = 5
    /\ lastOp.rect.width = 10
    /\ ByteAt(lastOp.trace[2].d, 2) = 0
    /\ ByteAt(lastOp.trace[2].d, 6) = 8

\* C13: on the models without hardware partial refresh update_partial_frame
\* returns an error to the caller and puts nothing on the bus: it neither
\* returns Ok nor aborts the program.
C13_PartialUnsupportedIsReported ==
    (lastOp.name = "update_partial_frame" /\ model # "epd2in7b")
        => (lastOp.res = "Err" /\ NoBusTraffic(lastOp.trace))

\* C14: on epd7in5 and epd7in5_hd set_lut returns an error to the caller for
\* every refresh mode and puts nothing on the bus: it neither returns Ok nor
\* aborts the program.
C14_SetLutUnsupportedIsReported ==
    (lastOp.name = "set_lut" /\ model \in {"epd7in5", "epd7in5_hd"})
        => (lastOp.res = "Err" /\ NoBusTraffic(lastOp.trace))

\* The models with fixed on-chip tables.
FixedLutModels == {"epd1in54c", "epd2in9bc"}

\* C15: on epd1in54c and epd2in9bc a set_lut, for every refresh mode, returns
\* Ok, emits nothing and leaves the driver and the panel as they were.
C15_SetLutIsNoOp ==
    [][(model \in FixedLutModels /\ lastOp'.name = "set_lut" /\ lastOp' # lastOp)
          => /\ lastOp'.res = "Ok"
             /\ lastOp'.trace = <<>>
             /\ color' = color
             /\ drv' = drv
             /\ asleep' = asleep
             /\ panelBusy' = panelBusy
             /\ initTrace' = initTrace]_vars

C15_Witness ==
    /\ model \in FixedLutModels
    /\ lastOp.name = "set_lut"
    /\ lastOp.arg = "Quick"
    /\ lastOp.res = "Ok"
    /\ color = "Black"

\* The tables a trace sends, in order.
Tables(trace) ==
    LET IsTable(e) == e.k = "table"
    IN SelectSeq(trace, IsTable)

\* C16: on epd3in7 and epd2in7b set_lut sends the table the refresh mode
\* selects: None sends what Full sends, Quick sends something else.
C16_SetLutSelectsTable ==
    (model \in {"epd3in7", "epd2in7b"} /\ lastOp.name = "set_lut" /\ lastOp.res = "Ok")
        => /\ Tables(lastOp.trace) # <<>>
           /\ lastOp.arg \in {"Full", "None"}
                 => Tables(lastOp.trace) = Tables(TraceOf(model, set_lut(model, "Full")))
           /\ lastOp.arg = "Quick"
                 => Tables(lastOp.trace) # Tables(TraceOf(model, set_lut(model, "Full")))

\* The commands that open the transmission of a plane.
PlaneCommands ==
    {"DataStartTransmission1", "DataStartTransmission2", "WriteRam", "WriteRamBw",
     "WriteRamRed"}

\* The positions in a trace of the data of the planes.
PlaneData(trace) ==
    {i \in 2..Len(trace) : /\ trace[i].k = "data"
                           /\ trace[i - 1].k = "cmd"
                           /\ trace[i - 1].c \in PlaneCommands}

\* What update_frame puts on the wire for a buffer byte b: epd2in7b flips it,
\* epd7in5 expands it to four bytes (the first is given), the others send it
\* as it is.
PlaneByte(m, b) ==
    CASE m = "epd2in7b" -> Not8(b)
      [] m = "epd7in5" -> ExpandByte(b, 4)[1]
      [] OTHER -> b

\* C17: every data byte clear_frame writes into a plane is the wire byte of
\* the current background color.
C17_ClearFrameFillsBackground ==
    (lastOp.name = "clear_frame" /\ lastOp.res = "Ok")
        => /\ PlaneData(lastOp.trace) # {}
           /\ \A i \in PlaneData(lastOp.trace) :
                 \A j \in 1..Len(lastOp.trace[i].d) :
                     lastOp.trace[i].d[j][1] = PlaneByte(model, get_byte_value(color))

\* C18: on the models with 1-bit planes clear_frame writes into every plane
\* as many bytes as update_frame sends for it, ceil(WIDTH*HEIGHT/8).
C18_ClearFrameFillsPlaneLength ==
    (lastOp.name = "clear_frame" /\ lastOp.res = "Ok" /\ model # "epd7in5")
        => /\ PlaneData(lastOp.trace) # {}
           /\ \A i \in PlaneData(lastOp.trace) :
                 RunsLen(lastOp.trace[i].d) = ExpectedLen(model)

\* C19: on epd2in7b clear_frame writes into each plane the bytes update_frame
\* puts on the wire for that plane when given a buffer filled with the byte
\* of the background color: both paths flip alike.
C19_InversionIsConsistent ==
    (model = "epd2in7b" /\ lastOp.name = "clear_frame" /\ lastOp.res = "Ok")
        => LET full == AddRun(<<>>, get_byte_value(color), ExpectedLen(model))
               upd == TraceOf(model, update_frame(model, full, color))
           IN \A c \in {"DataStartTransmission1", "DataStartTransmission2"} :
                  DataAfter(lastOp.trace, c) = DataAfter(upd, c)

\* C20: where the all-zero buffer maps to the wire byte of the background, an
\* update_frame with the all-zero buffer right after a clear_frame adds
\* nothing to the trace of the clear_frame, or at least repeats that trace.
C20_UpdateAfterClearIsIdempotent ==
    (/\ lastOp.name = "update_frame"
     /\ lastOp.res = "Ok"
     /\ lastOp.afterClear # <<>>
     /\ lastOp.buffer = AddRun(<<>>, 0, ExpectedLen(model))
     /\ PlaneByte(model, 0) = PlaneByte(model, get_byte_value(color)))
        => \/ lastOp.afterClear \o lastOp.trace = lastOp.afterClear
           \/ lastOp.trace = lastOp.afterClear

\* Bit i of byte b.
Bit(b, i) == (b \div (2 ^ i)) % 2

\* Output byte k (0..3) of a source byte b: the high nibble is 3 when bit
\* 7-2k of b is set, the low nibble is 3 when bit 6-2k is set.
Pixels(b, k) ==
    (IF Bit(b, 7 - 2 * k) = 1 THEN 3 ELSE 0) * 16 + (IF Bit(b, 6 - 2 * k) = 1 THEN 3 ELSE 0)

\* The bytes a buffer expands to, four per source byte, in order.
RECURSIVE Expanded(_)
Expanded(buffer) ==
    IF buffer = <<>> THEN <<>>
    ELSE LET b == buffer[1][1]
             n == buffer[1][2]
             four == Bytes(<<Pixels(b, 0), Pixels(b, 1), Pixels(b, 2), Pixels(b, 3)>>)
         IN IF Len(four) = 1
            THEN CatRuns(AddRun(<<>>, Pixels(b, 0), 4 * n), Expanded(Tail(buffer)))
            ELSE CatRuns(four, Expanded(IF n = 1 THEN Tail(buffer)
                                        ELSE << <<b, n - 1>> >> \o Tail(buffer)))

\* C21: epd7in5 update_frame sends for every source byte four data bytes, in
\* order, output byte k holding source bits 7-2k and 6-2k as the nibbles 0x3 or
\* 0x0: the data has 4*len(buffer) bytes, each one of 0x00, 0x03, 0x30, 0x33;
\* and the expansion of every byte value 0..255 is of that form.
C21_UpdateFrameExpandsPixels ==
    (model = "epd7in5" /\ lastOp.name = "update_frame" /\ lastOp.res = "Ok")
        => LET sent == DataAfter(lastOp.trace, "DataStartTransmission1")
           IN /\ sent = Expanded(lastOp.buffer)
              /\ RunsLen(sent) = 4 * RunsLen(lastOp.buffer)
              /\ \A i \in 1..Len(sent) : sent[i][1] \in {\H00, \H03, \H30, \H33}
              /\ \A b \in 0..255 :
                    ExpandByte(b, 4) = <<Pixels(b, 0), Pixels(b, 1), Pixels(b, 2), Pixels(b, 3)>>

C21_Witness ==
    /\ model = "epd7in5"
    /\ lastOp.name = "update_frame"
    /\ lastOp.res = "Ok"
    /\ Len(lastOp.buffer) = 2
    /\ Len(DataAfter(lastOp.trace, "DataStartTransmission1")) > 2

\* C22: the reset pulse is the first step of init: the trace of a new and of
\* a wake_up starts with the reset, so that every command and data byte comes
\* after it.
C22_ResetComesFirst ==
    (lastOp.name \in {"new", "wake_up"} /\ lastOp.res = "Ok")
        => /\ lastOp.trace # <<>>
           /\ lastOp.trace[1].k = "rst"
           /\ \A i \in 1..Len(lastOp.trace) :
                 IsBus(lastOp.trace[i])
                    => \E j \in 1..(i - 1) : lastOp.trace[j].k = "rst"

C22_Witness ==
    /\ lastOp.name = "wake_up"
    /\ lastOp.res = "Ok"
    /\ lastOp.trace[1].k = "rst"
    /\ \E i \in 2..Len(lastOp.trace) : IsBus(lastOp.trace[i])

\* The failed transfers in a trace.
Failures(trace) == {i \in 1..Len(trace) : trace[i].k = "fail"}

\* C23: new returns a driver only after the whole init sequence was emitted;
\* when a bus transfer of init fails, new returns the error and no driver, and
\* the failed transfer is the last thing on the bus.
C23_NewFailsWithInit ==
    lastOp.name = "new"
        => /\ lastOp.res = "Ok"
                 => /\ lastOp.bn = 0
                    /\ lastOp.trace = TraceOf(model, init(model))
           /\ drv = "ready" => lastOp.res = "Ok"
           /\ lastOp.bn > 0
                 => /\ lastOp.res = "Err"
                    /\ drv # "ready"
                    /\ Failures(lastOp.trace) = {Len(lastOp.trace)}

C23_Witness ==
    /\ lastOp.name = "new"
    /\ lastOp.bn = CountBus(init(model))
    /\ lastOp.res = "Err"
    /\ Len(lastOp.trace) > 3

\* C24: set_background_color and background_color put nothing on the bus and
\* leave the panel alone; background_color returns the color last passed to
\* set_background_color, White on a new driver: only set_background_color
\* changes what it returns.
C24_BackgroundColorIsInMemory ==
    /\ [](/\ lastOp.name = "set_background_color"
                => (lastOp.trace = <<>> /\ background_color = lastOp.arg)
          /\ (lastOp.name = "new" /\ lastOp.res = "Ok") => background_color = "White")
    /\ [][/\ (lastOp'.name = "set_background_color" /\ lastOp' # lastOp)
                => (panelBusy' = panelBusy /\ drv' = drv /\ asleep' = asleep)
          /\ background_color' # background_color
                => lastOp'.name = "set_background_color"]_vars

C24_Witness ==
    /\ lastOp.name = "set_background_color"
    /\ lastOp.arg = "Black"
    /\ background_color = "Black"
    /\ lastOp.trace = <<>>

\* C25: width() and height() are the fixed geometry of the model in every
\* reachable state.
C25_GeometryIsFixed ==
    <<WIDTH(model), HEIGHT(model)>> =
        CASE model = "epd1in54c" -> <<152, 152>>
          [] model = "epd2in7b" -> <<176, 264>>
          [] model = "epd2in9bc" -> <<128, 296>>
          [] model = "epd3in7" -> <<280, 480>>
          [] model = "epd7in5" -> <<640, 384>>
          [] model = "epd7in5_hd" -> <<880, 528>>

C25_Witness ==
    /\ model = "epd2in7b"
    /\ lastOp.name = "clear_frame"
    /\ lastOp.res = "Ok"
    /\ color = "Black"
    /\ WIDTH(model) = 176
    /\ HEIGHT(model) = 264

\* C27: epd1in54c send_resolution emits the ResolutionSetting command and
\* then exactly three bytes as data: the width with its low 3 bits cleared,
\* HEIGHT >> 8, and the low byte of the height.
C27_ResolutionBytes ==
    (model = "epd1in54c" /\ lastOp.name \in {"new", "wake_up"} /\ lastOp.res = "Ok")
        => LET at == CmdAt(lastOp.trace, "ResolutionSetting")
           IN /\ at > 0
              /\ at + 1 < Len(lastOp.trace)
              /\ lastOp.trace[at + 1].k = "data"
              /\ lastOp.trace[at + 1].d
                    = Bytes(<<(WIDTH(model) % 256) - (WIDTH(model) % 8),
                              (HEIGHT(model) \div 256) % 256,
                              HEIGHT(model) % 256>>)
              /\ RunsLen(lastOp.trace[at + 1].d) = 3
              /\ lastOp.trace[at + 2].k = "cmd"

C27_Witness ==
    /\ model = "epd1in54c"
    /\ lastOp.name = "new"
    /\ lastOp.res = "Ok"
    /\ HasCmd(lastOp.trace, "ResolutionSetting")

\* The commands that put the controller into deep sleep.
DeepSleepCommands == {"DeepSleep", "Sleep2"}

\* C28: in a sleep that issues PowerOff, the busy line is waited idle between
\* PowerOff and the deep-sleep command, and the deep-sleep command with its one
\* data byte ends the trace.
C28_SleepWaitsAfterPowerOff ==
    (lastOp.name = "sleep" /\ lastOp.res = "Ok" /\ HasCmd(lastOp.trace, "PowerOff"))
        => LET n == Len(lastOp.trace)
               off == CmdAt(lastOp.trace, "PowerOff")
           IN /\ n > 2
              /\ lastOp.trace[n - 1].k = "cmd"
              /\ lastOp.trace[n - 1].c \in DeepSleepCommands
              /\ lastOp.trace[n].k = "data"
              /\ RunsLen(lastOp.trace[n].d) = 1
              /\ \E j \in (off + 1)..(n - 2) : lastOp.trace[j].k = "wait"

\* C30: on the dual-plane models update_frame(b) writes what
\* update_color_frame(b, c) writes when c is a full plane of the byte of the
\* background color: the data after the achromatic command and the data
\* after the chromatic command are the same in both traces.
C30_UpdateFrameIsColorFrameWithBackground ==
    (model \in DualPlane /\ lastOp.name = "update_frame" /\ lastOp.res = "Ok")
        => LET c == AddRun(<<>>, get_byte_value(color), ExpectedLen(model))
               both == TraceOf(model, update_color_frame(model, lastOp.buffer, c))
           IN \A p \in {"DataStartTransmission1", "DataStartTransmission2"} :
                  /\ HasCmd(lastOp.trace, p)
                  /\ DataAfter(lastOp.trace, p) = DataAfter(both, p)

C30_Witness ==
    /\ model = "epd1in54c"
    /\ lastOp.name = "update_frame"
    /\ lastOp.res = "Ok"
    /\ color = "Black"
    /\ lastOp.buffer = AddRun(<<>>, 255, ExpectedLen(model))

\* Whether a call into the interface is a transfer on the bus.
IsTransfer(s) == s.k \in {"cmd", "table"} \/ (s.k = "data" /\ s.d # <<>>)

\* The calls that come before the k-th bus transfer.
RECURSIVE Before(_, _)
Before(steps, k) ==
    IF steps = <<>> THEN <<>>
    ELSE IF ~IsTransfer(Head(steps)) THEN <<Head(steps)>> \o Before(Tail(steps), k)
    ELSE IF k = 1 THEN <<>>
    ELSE <<Head(steps)>> \o Before(Tail(steps), k - 1)

\* The script of the multi-step operation a call ran.
ScriptOf(op) ==
    CASE op.name \in {"new", "wake_up"} -> init(model)
      [] op.name = "sleep" -> sleep(model)
      [] op.name = "clear_frame" -> clear_frame(model, color)
      [] op.name = "set_lut" -> set_lut(model, op.arg)
      [] op.name = "update_frame" -> update_frame(model, op.buffer, color)

\* C29: when the k-th bus transfer of init, sleep, clear_frame, set_lut or
\* update_frame fails, the call fails and its trace is what the successful
\* call emits up to its (k-1)-th transfer, followed by the one failed attempt
\* (which may have put all but the last byte of its payload on the bus): the
\* transfer is not tried again and nothing is sent after it.
C29_FailureCutsTheTrace ==
    (lastOp.name \in {"new", "wake_up", "sleep", "clear_frame", "set_lut", "update_frame"}
     /\ lastOp.bn > 0)
        => LET steps == Flatten(ScriptOf(lastOp))
               before == Before(steps, lastOp.bn)
               kth == steps[Len(before) + 1]
               n == Len(lastOp.trace)
               cut == <<[kth EXCEPT !.d = TakeBytes(kth.d, RunsLen(kth.d) - 1)]>>
           IN /\ lastOp.res = "Err"
              /\ n > 0
              /\ lastOp.trace[n].k = "fail"
              /\ Failures(lastOp.trace) = {n}
              /\ \/ SubSeq(lastOp.trace, 1, n - 1) = TraceOf(model, before)
                 \/ /\ kth.k = "data"
                    /\ SubSeq(lastOp.trace, 1, n - 1) = TraceOf(model, before \o cut)

C29_Witness ==
    /\ lastOp.name = "sleep"
    /\ lastOp.bn = 3
    /\ lastOp.res = "Err"
    /\ Len(lastOp.trace) > 2

\* A call is in a wait.
Waiting == drv = "calling" /\ pending # <<>> /\ Head(pending).k = "wait"

\* C26: there is no timeout in a wait: every call that waits, display_frame
\* among them, returns eventually unless the busy line gets stuck at the busy
\* level, and a call waiting on a stuck line goes on waiting forever.
C26_WaitEndsIffLineGoesIdle ==
    /\ (drv = "calling") ~> (drv = "ready" \/ faults = "stuck")
    /\ (lastOp.name = "display_frame" /\ drv = "calling")
          ~> ((lastOp.name = "display_frame" /\ lastOp.res = "Ok") \/ faults = "stuck")
    /\ [][(faults = "stuck" /\ Waiting)
             => (faults' = "stuck" /\ Waiting' /\ lastOp' = lastOp)]_vars

C26_Witness ==
    /\ faults = "stuck"
    /\ lastOp.name = "display_frame"
    /\ Waiting
    /\ panelBusy = 0
    /\ Head(pending).t = <<MaxBusy + 2>>

\* The commands of epd2in7b that open a transfer of pixel data.
DataStartCommands ==
    {"DataStartTransmission1", "DataStartTransmission2",
     "PartialDataStartTransmission1", "PartialDataStartTransmission2"}

\* The commands of epd2in7b that start a refresh.
RefreshCommands_epd2in7b == {"DisplayRefresh", "PartialDisplayRefresh"}

IsCmdIn(trace, i, cs) == trace[i].k = "cmd" /\ trace[i].c \in cs

\* C31: on epd2in7b, within every call that returns Ok, a DataStop lies
\* between a data-start-transmission command and the next
\* data-start-transmission or refresh command.
C31_TransmissionsAreClosed ==
    (model = "epd2in7b" /\ lastOp.res = "Ok")
        => \A i \in 1..Len(lastOp.trace) : \A k \in (i + 1)..Len(lastOp.trace) :
              (/\ IsCmdIn(lastOp.trace, i, DataStartCommands)
               /\ IsCmdIn(lastOp.trace, k, DataStartCommands \cup RefreshCommands_epd2in7b))
                  => \E j \in (i + 1)..(k - 1) : IsCmdIn(lastOp.trace, j, {"DataStop"})

\* C32: clear_frame never sends the command that starts a refresh.
C32_ClearFrameNeverRefreshes ==
    lastOp.name = "clear_frame" => ~HasCmd(lastOp.trace, RefreshCommand(model))

\* C38: on epd2in7b update_partial_frame emits the trace that
\* update_partial_achromatic_frame emits for the same buffer and rectangle.
C38_PartialFrameIsPartialAchromaticFrame ==
    (model = "epd2in7b" /\ lastOp.name = "update_partial_frame" /\ lastOp.res = "Ok")
        => lastOp.trace
             = TraceOf(model, update_partial_achromatic_frame(
                                  lastOp.buffer, lastOp.rect.x, lastOp.rect.y,
                                  lastOp.rect.width, lastOp.rect.height))

\* C33: on epd7in5 the data clear_frame sends after DataStartTransmission1 are
\* 4 * WIDTH / 8 * HEIGHT bytes of 0x33, whatever the background color, and
\* they are the data update_frame sends for a buffer of the right size that is
\* all 0xFF.
C33_ClearIsUpdateOfBlankBuffer ==
    (model = "epd7in5" /\ lastOp.name = "clear_frame" /\ lastOp.res = "Ok")
        => /\ DataAfter(lastOp.trace, "DataStartTransmission1")
                = AddRun(<<>>, \H33, 4 * (WIDTH(model) \div 8) * HEIGHT(model))
           /\ \A bg \in Colors :
                 DataAfter(TraceOf(model, update_frame(model,
                                              AddRun(<<>>, \HFF, ExpectedLen(model)), bg)),
                           "DataStartTransmission1")
                    = DataAfter(lastOp.trace, "DataStartTransmission1")

C33_Witness ==
    /\ model = "epd7in5"
    /\ lastOp.name = "clear_frame"
    /\ lastOp.res = "Ok"
    /\ background_color = "Black"
    /\ RunsLen(DataAfter(lastOp.trace, "DataStartTransmission1")) > 0

\* C34: the stored background color changes only in set_background_color,
\* and then to the color handed in: sleep, wake_up, update_frame, clear_frame,
\* display_frame and every call that fails leave it as it is, so a color set
\* before sleep is the color after wake_up.
C34_OnlySetterChangesColor ==
    [][background_color' # background_color
          => (lastOp'.name = "set_background_color" /\ background_color' = lastOp'.arg)]_vars

C34_Witness ==
    /\ faults = "bus"
    /\ lastOp.name = "wake_up"
    /\ lastOp.wasAsleep
    /\ lastOp.res = "Ok"
    /\ background_color = "Black"

\* C35: on epd3in7 the table the controller holds after a wake_up that
\* returned Ok is the Full table, whatever table it held before.
C35_WakeUpRestoresFullLut ==
    (model = "epd3in7" /\ lastOp.name = "wake_up" /\ lastOp.res = "Ok")
        => lut_held = "LUT_1GRAY_GC"

C35_Witness ==
    /\ model = "epd3in7"
    /\ lastOp.name = "wake_up"
    /\ lastOp.wasAsleep
    /\ lastOp.res = "Ok"
    /\ lastOp.lutBefore = "LUT_1GRAY_DU"
    /\ lut_held = "LUT_1GRAY_GC"

\* The commands of init after which the controller is busy: PowerOn and the
\* auto-write-RAM commands.
InitBusyCommands ==
    {"PowerOn", "AutoWriteRedRamRegularPattern", "AutoWriteBwRamRegularPattern",
     "AutoWriteRed", "AutoWriteBw"}

\* C36: in init, run by new and by wake_up, PowerOn and every auto-write-RAM
\* command is followed by a wait for the busy line before the next command.
C36_InitWaitsAfterPowerOn ==
    (lastOp.name \in {"new", "wake_up"} /\ lastOp.res = "Ok")
        => /\ \E i \in 1..Len(lastOp.trace) : IsCmdIn(lastOp.trace, i, InitBusyCommands)
           /\ \A i \in 1..Len(lastOp.trace) :
                 IsCmdIn(lastOp.trace, i, InitBusyCommands)
                    => \E j \in (i + 1)..Len(lastOp.trace) :
                          /\ lastOp.trace[j].k = "wait"
                          /\ \A k \in (i + 1)..(j - 1) : lastOp.trace[k].k # "cmd"

C36_Witness ==
    /\ model = "epd3in7"
    /\ lastOp.name = "wake_up"
    /\ lastOp.res = "Ok"
    /\ HasCmd(lastOp.trace, "AutoWriteBwRamRegularPattern")
    /\ Len(lastOp.waits) >= 2

\* The k-th data byte sent after the first command c.
ByteAfter(trace, c, k) == ByteAt(DataAfter(trace, c), k)

\* C37: the bytes of send_resolution hold the geometry: on epd7in5 two
\* bigendian 16-bit numbers, WIDTH and HEIGHT; on epd2in9bc WIDTH in one byte
\* and HEIGHT in two.
C37_ResolutionIsLossless ==
    /\ (model = "epd7in5" /\ lastOp.res = "Ok" /\ HasCmd(lastOp.trace, "TconResolution"))
          => /\ RunsLen(DataAfter(lastOp.trace, "TconResolution")) = 4
             /\ ByteAfter(lastOp.trace, "TconResolution", 1) * 256
                  + ByteAfter(lastOp.trace, "TconResolution", 2) = WIDTH(model)
             /\ ByteAfter(lastOp.trace, "TconResolution", 3) * 256
                  + ByteAfter(lastOp.trace, "TconResolution", 4) = HEIGHT(model)
             /\ \A k \in 1..4 : ByteAfter(lastOp.trace, "TconResolution", k) \in 0..255
    /\ (model = "epd2in9bc" /\ lastOp.res = "Ok" /\ HasCmd(lastOp.trace, "ResolutionSetting"))
          => /\ RunsLen(DataAfter(lastOp.trace, "ResolutionSetting")) = 3
             /\ ByteAfter(lastOp.trace, "ResolutionSetting", 1) = WIDTH(model)
             /\ ByteAfter(lastOp.trace, "ResolutionSetting", 2) * 256
                  + ByteAfter(lastOp.trace, "ResolutionSetting", 3) = HEIGHT(model)
             /\ \A k \in 1..3 : ByteAfter(lastOp.trace, "ResolutionSetting", k) \in 0..255

C37_Witness ==
    /\ model = "epd7in5"
    /\ lastOp.name = "clear_frame"
    /\ lastOp.res = "Ok"
    /\ ByteAfter(lastOp.trace, "TconResolution", 1) > 0
    /\ ByteAfter(lastOp.trace, "TconResolution", 3) > 0

\* The data bytes of the last VcomAndDataIntervalSetting of a trace.
BorderSent(trace) ==
    LET at == {i \in 1..Len(trace) : IsCmdIn(trace, i, {"VcomAndDataIntervalSetting"})}
        i == CHOOSE i \in at : \A j \in at : j <= i
    IN IF at = {} \/ i = Len(trace) \/ trace[i + 1].k # "data" THEN <<>> ELSE trace[i + 1].d

\* C39: on epd2in9bc set_border_color sends one VcomAndDataIntervalSetting
\* with one data byte, the border bits of the color with 0x07 (0x37 for Black,
\* 0x77 for White, 0xB7 for Chromatic, three different bytes), and the border
\* setting a wake_up sends last is the White one.
C39_BorderColorSetting ==
    /\ (model = "epd2in9bc" /\ lastOp.name = "set_border_color" /\ lastOp.res = "Ok")
          => /\ Len(lastOp.trace) = 2
             /\ IsCmdIn(lastOp.trace, 1, {"VcomAndDataIntervalSetting"})
             /\ lastOp.trace[2].k = "data"
             /\ lastOp.trace[2].d
                  = Bytes(<<CASE lastOp.arg = "Black" -> \H37
                              [] lastOp.arg = "White" -> \H77
                              [] lastOp.arg = "Chromatic" -> \HB7>>)
             /\ \A other \in TriColors \ {lastOp.arg} :
                   TraceOf(model, set_border_color(other)) # lastOp.trace
    /\ (model = "epd2in9bc" /\ lastOp.name = "wake_up" /\ lastOp.res = "Ok")
          => BorderSent(lastOp.trace) = Bytes(<<\H77>>)

C39_Witness ==
    /\ model = "epd2in9bc"
    /\ lastOp.name = "set_border_color"
    /\ lastOp.arg = "Chromatic"
    /\ lastOp.res = "Ok"
    /\ BorderSent(lastOp.trace) = Bytes(<<\HB7>>)

====
